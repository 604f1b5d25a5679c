----------------------------- MODULE PatTokens -----------------------------
(***************************************************************************)
(* Personal access tokens (PATs): auth.PATService (issue, authenticate,   *)
(* revoke) over authstate.PATStore, which keeps every record of a tenant  *)
(* and the audit chain of their transitions in one transactional object.  *)
(*                                                                         *)
(* A call to the store is one transaction of the qualified source followed *)
(* by a durability barrier on its commit token.  `cell' is the committed   *)
(* object, `durable' what survives a failure of the source, so a failure   *)
(* between the two steps may take the transaction back.  Digests, ids and  *)
(* the plaintext of a token are one model value, the secret; a hash chain  *)
(* over the audit is the sequence itself.  Times are ticks, 0 is the zero  *)
(* time.Time; the clock the service and the store read may be set back.    *)
(*                                                                         *)
(* auditcheckpoint.Publisher stands over the same store: a snapshot of the *)
(* audit chain is read, signed outside the object's transaction and        *)
(* published as an immutable receipt of the same object, provided the      *)
(* object has not changed since.  An exporter pages through the chain      *)
(* (ReadAudit) at the same time.  Receipts are in the object, in the same  *)
(* commit order: what a barrier confirms includes them.  The digest of a   *)
(* state is the state; a signature is the number of the signing call.      *)
(***************************************************************************)
EXTENDS Integers, Sequences, SequencesExt, FiniteSets

CONSTANTS
  Calls,              \* calls made to the service, each made once
  Secrets,            \* what the entropy source may yield
  Scopes,             \* scopes a token may carry and a call may require
  NoSecret, NoScope,  \* the empty strings
  Lifetime,           \* lifetime of an issued token, in ticks
  MaximumCASRetries,  \* PATServiceConfig.MaximumCASRetries
  MaximumRecords, MaximumAuditEntries,   \* authstate.Config
  MaxTime, MaxSetBacks, MaxCrashes,      \* bounds of the environment
  Publishes,          \* calls of Publish, each made once
  PageLimit,          \* limit the exporter asks for
  MaxBadSignings      \* answers of the signing service that do not verify

VARIABLES
  cell, durable, call, now, faults,
  receipts, durableReceipts,   \* checkpoints by head sequence
  publish,                     \* state of each call of Publish
  signings,                    \* signing calls answered, good and bad
  exporter                     \* reader of the audit outbox

vars == <<cell, durable, call, now, faults>>

\* A service and a store their constructors accept.
ConfigAccepted ==
  /\ MaximumCASRetries \in 1 .. 256
  /\ Lifetime \in 1 .. 366

\* The limits a store accepts (zero stands for the default and is not used).
configuredLimits ==
  /\ MaximumRecords \in 1 .. 4096
  /\ MaximumAuditEntries \in 1 .. 65536

PatAssumption == ConfigAccepted /\ configuredLimits

----------------------------------------------------------------------------
\* auth.PATRecord; version 0 is a record the object does not hold.
NoRecord == [scopes |-> {}, issuedAt |-> 0, expiresAt |-> 0, revokedAt |-> 0,
             lastUsedAt |-> 0, useCount |-> 0, version |-> 0]

\* issuePAT: the record of a fresh secret, its scopes a non-empty set.
issuePAT(scopes, issuedAt) ==
  [NoRecord EXCEPT !.scopes = scopes, !.issuedAt = issuedAt,
                   !.expiresAt = issuedAt + Lifetime, !.version = 1]

\* The object of a tenant: records, and the audit chain that explains them.
durableState == [records |-> [s \in Secrets |-> NoRecord], audit |-> <<>>]

\* auth.PATAuditEvent with the version it led to.
PATAuditEvent(secret, kind, scope, at, version) ==
  [secret |-> secret, kind |-> kind, scope |-> scope, at |-> at, version |-> version]

HistoryOf(audit, s) == SelectSeq(audit, LAMBDA e : e.secret = s)

validRecord(r) ==
  /\ r.version >= 1 /\ r.scopes # {}
  /\ r.issuedAt > 0 /\ r.expiresAt > r.issuedAt
  /\ r.expiresAt - r.issuedAt <= 366
  /\ IF r.useCount = 0 THEN r.lastUsedAt = 0
     ELSE r.lastUsedAt >= r.issuedAt /\ r.lastUsedAt < r.expiresAt
  /\ r.revokedAt # 0 => r.revokedAt >= r.issuedAt /\ r.revokedAt >= r.lastUsedAt
  /\ r.version = 1 + r.useCount + (IF r.revokedAt # 0 THEN 1 ELSE 0)

\* What validateState asks of the entries of one record: issued first and
\* once, revoked last and once, every use in scope, in order and in time.
ValidHistory(h, r) ==
  /\ h # <<>>
  /\ \A i \in DOMAIN h :
       /\ h[i].version = i
       /\ h[i].kind = "issued" <=> i = 1
       /\ h[i].kind = "revoked" => i = Len(h) /\ h[i].scope = NoScope
       /\ h[i].kind = "used" => h[i].scope \in r.scopes /\ h[i].at < r.expiresAt
       /\ i > 1 => h[i].at >= h[i - 1].at
  /\ h[1].at = r.issuedAt /\ h[1].scope = NoScope
  /\ LET used == SelectSeq(h, LAMBDA e : e.kind = "used")
         last == h[Len(h)]
     IN /\ Len(h) = r.version /\ Len(used) = r.useCount
        /\ r.lastUsedAt = IF used = <<>> THEN 0 ELSE used[Len(used)].at
        /\ r.revokedAt = IF last.kind = "revoked" THEN last.at ELSE 0

validateState(state) ==
  /\ Cardinality({s \in Secrets : state.records[s].version # 0}) <= MaximumRecords
  /\ Len(state.audit) <= MaximumAuditEntries
  /\ \A i \in DOMAIN state.audit :
       /\ state.audit[i].committedAt >= state.audit[i].at
       /\ i > 1 => state.audit[i].committedAt >= state.audit[i - 1].committedAt
  /\ \A s \in Secrets :
       LET r == state.records[s]  h == HistoryOf(state.audit, s)
       IN IF r.version = 0 THEN h = <<>> ELSE validRecord(r) /\ ValidHistory(h, r)

\* The shapes parseRecord and parseAudit admit, and what decodeState adds.
parseRecord(r) ==
  /\ r.scopes \subseteq Scopes /\ r.scopes # {}
  /\ r.issuedAt > 0 /\ r.expiresAt > 0 /\ r.revokedAt >= 0 /\ r.lastUsedAt >= 0
  /\ r.useCount >= 0 /\ r.version >= 0

parseAudit(e) ==
  e.version >= 0 /\ e.at > 0 /\ e.committedAt > 0 /\ e.secret \in Secrets

decodeState(state) ==
  /\ \A s \in Secrets : state.records[s] # NoRecord => parseRecord(state.records[s])
  /\ \A i \in DOMAIN state.audit : parseAudit(state.audit[i])
  /\ validateState(state)

----------------------------------------------------------------------------
\* What the callback of a transaction leaves: an error (rolled back), or the
\* state to write.
Refused(err) == [err |-> err, state |-> durableState]
Accepted(state) == [err |-> "ok", state |-> state]

appendAudit(state, event) ==
  IF Len(state.audit) >= MaximumAuditEntries THEN Refused("capacity")
  ELSE IF state.audit # <<>> /\ now < Last(state.audit).committedAt
       THEN Refused("unavailable")
  ELSE Accepted([state EXCEPT !.audit = Append(@,
         [secret |-> event.secret, kind |-> event.kind, scope |-> event.scope,
          at |-> event.at, version |-> event.version, committedAt |-> now])])

\* encodeState validates what it is about to write.
encodeState(result) ==
  IF result.err = "ok" /\ ~validateState(result.state)
  THEN Refused("corrupt") ELSE result

CreatePAT(state, record, event) ==
  IF ~decodeState(state) THEN Refused("corrupt")
  ELSE IF now < event.at \/ now >= record.expiresAt THEN Refused("invalid")
  ELSE IF state.records[event.secret].version # 0 THEN Refused("conflict")
  ELSE IF Cardinality({s \in Secrets : state.records[s].version # 0}) >= MaximumRecords
       THEN Refused("capacity")
  ELSE encodeState(appendAudit(
         [state EXCEPT !.records[event.secret] = record], event))


ValidUse(current, next, event) ==
  /\ next.revokedAt = 0 /\ next.useCount = current.useCount + 1
  /\ next.lastUsedAt = event.at
  /\ event.at >= current.issuedAt /\ event.at >= current.lastUsedAt
  /\ now >= current.issuedAt /\ now < current.expiresAt
  /\ event.scope \in current.scopes

ValidRevocation(current, next, event) ==
  /\ next.useCount = current.useCount /\ next.lastUsedAt = current.lastUsedAt
  /\ next.revokedAt = event.at
  /\ event.at >= current.issuedAt /\ event.at >= current.lastUsedAt

validTransition(current, next, event) ==
  /\ next.scopes = current.scopes
  /\ next.issuedAt = current.issuedAt /\ next.expiresAt = current.expiresAt
  /\ next.version = current.version + 1
  /\ current.revokedAt = 0
  /\ now >= event.at
  /\ \/ event.kind = "used" /\ ValidUse(current, next, event)
     \/ event.kind = "revoked" /\ ValidRevocation(current, next, event)

CommitPAT(state, version, next, event) ==
  LET current == state.records[event.secret] IN
  IF ~decodeState(state) THEN Refused("corrupt")
  ELSE IF current.version = 0 THEN Refused("notfound")
  ELSE IF current.version # version THEN Refused("conflict")
  ELSE IF ~validTransition(current, next, event) THEN Refused("invalid")
  ELSE encodeState(appendAudit(
         [state EXCEPT !.records[event.secret] = next], event))

----------------------------------------------------------------------------
\* One call to the service: what was asked, where it is, the snapshot it
\* loaded, the record it wants to commit, and its answer.  `entry' is the audit
\* entry of its committed transaction; `late' says that the revocation of its
\* token had been answered when it began.
NoCall == [op |-> "none", pc |-> "idle", secret |-> NoSecret, scope |-> NoScope,
           scopes |-> {}, expected |-> 0, at |-> 0, attempt |-> 0,
           record |-> NoRecord, next |-> NoRecord, kind |-> "none",
           entry |-> 0, answer |-> "none", late |-> FALSE]

Init ==
  /\ cell = durableState /\ durable = durableState
  /\ call = [c \in Calls |-> NoCall]
  /\ now = 1
  /\ faults = [setBacks |-> 0, crashes |-> 0]

\* A call returns; what only its steps used is forgotten.
Answer(c, answer) ==
  [call[c] EXCEPT !.pc = "done", !.answer = answer, !.record = NoRecord,
                  !.next = NoRecord, !.attempt = 0]

ClockStays == UNCHANGED <<now, faults>>

\* safeError: a sentinel of the store passes, any other error is "unavailable".
safeError(err) ==
  IF err \in {"invalid", "conflict", "notfound", "corrupt", "capacity"}
  THEN err ELSE "unavailable"

\* PATService.Issue: the time of issue is read once, before the first attempt.
Issue(c, scopes) ==
  /\ call[c].pc = "idle" /\ scopes # {}
  /\ call' = [call EXCEPT ![c] = [NoCall EXCEPT !.op = "issue", !.pc = "create",
                                    !.scopes = scopes, !.at = now]]
  /\ UNCHANGED <<cell, durable, now, faults>>

\* Another attempt, or ErrPATStoreContended when the attempts are used up.
Retry(c, pc) ==
  IF call[c].attempt + 1 < MaximumCASRetries
  THEN [call[c] EXCEPT !.attempt = @ + 1, !.pc = pc, !.record = NoRecord,
                       !.next = NoRecord]
  ELSE Answer(c, "contended")

\* One attempt of Issue: a secret is drawn and its record created.
IssueCreate(c, s) ==
  /\ call[c].pc = "create"
  /\ LET record == issuePAT(call[c].scopes, call[c].at)
         event == PATAuditEvent(s, "issued", NoScope, call[c].at, 1)
         result == CreatePAT(cell, record, event)
     IN \/ /\ result.err = "ok"
           /\ cell' = result.state
           /\ call' = [call EXCEPT ![c].pc = "committed", ![c].secret = s,
                                   ![c].kind = "issued",
                                   ![c].entry = Len(result.state.audit)]
        \/ /\ result.err = "conflict"
           /\ call' = [call EXCEPT ![c] = Retry(c, "create")]
           /\ UNCHANGED cell
        \/ /\ result.err \notin {"ok", "conflict"}
           /\ call' = [call EXCEPT ![c] = Answer(c, safeError(result.err))]
           /\ UNCHANGED cell
  /\ UNCHANGED durable /\ ClockStays

\* The revocation of s has been answered.
RevocationAnswered(s) ==
  \E d \in Calls : call[d].op = "revoke" /\ call[d].answer = "ok" /\ call[d].secret = s

\* PATService.Authenticate and Revoke, up to the first load.
Authenticate(c, s, scope) ==
  /\ call[c].pc = "idle"
  /\ call' = [call EXCEPT ![c] = [NoCall EXCEPT !.op = "authenticate", !.pc = "load",
                !.secret = s, !.scope = scope, !.late = RevocationAnswered(s)]]
  /\ UNCHANGED <<cell, durable, now, faults>>

Revoke(c, s, expected) ==
  /\ call[c].pc = "idle" /\ expected > 0
  /\ call' = [call EXCEPT ![c] = [NoCall EXCEPT !.op = "revoke", !.pc = "load",
                !.secret = s, !.expected = expected]]
  /\ UNCHANGED <<cell, durable, now, faults>>

\* LoadPATByDigest and LoadPATByID: a transaction that changes nothing.
Load(c) ==
  /\ call[c].pc = "load"
  /\ LET record == cell.records[call[c].secret]
     IN call' = [call EXCEPT ![c] =
          IF record.version = 0 THEN Answer(c, IF call[c].op = "revoke" THEN "notfound" ELSE "invalid")
          ELSE [@ EXCEPT !.pc = "loaded", !.record = record]]
  /\ UNCHANGED <<cell, durable>> /\ ClockStays

\* transact waits for the barrier of its token, for a read too.
LoadBarrier(c) ==
  /\ call[c].pc = "loaded"
  /\ durable' = cell
  /\ call' = [call EXCEPT ![c].pc = "decide"]
  /\ UNCHANGED cell /\ ClockStays

\* verifyPATSnapshot: what authenticating with a loaded record answers.
verifyPATSnapshot(record, scope) ==
  CASE record.revokedAt # 0 -> "revoked"
    [] record.revokedAt = 0 /\ (now < record.issuedAt \/ now < record.lastUsedAt) -> "invalid"
    [] record.revokedAt = 0 /\ now >= record.issuedAt /\ now >= record.lastUsedAt
         /\ now >= record.expiresAt -> "expired"
    [] OTHER -> IF scope \in record.scopes THEN "ok" ELSE "scope"

DecideUse(c) ==
  LET record == call[c].record
      verdict == verifyPATSnapshot(record, call[c].scope)
  IN IF verdict # "ok" THEN Answer(c, verdict)
     ELSE [call[c] EXCEPT !.pc = "commit", !.kind = "used", !.at = now,
             !.next = [record EXCEPT !.lastUsedAt = now, !.useCount = @ + 1,
                                     !.version = @ + 1]]

\* applyPATRevocation: the time of a revocation is never before the last use.
applyPATRevocation(record) ==
  LET at == IF record.lastUsedAt > now THEN record.lastUsedAt ELSE now
  IN [record EXCEPT !.revokedAt = at, !.version = @ + 1]

DecideRevocation(c) ==
  LET record == call[c].record
      next == applyPATRevocation(record)
  IN IF record.revokedAt # 0 THEN Answer(c, "ok")
     ELSE IF record.version # call[c].expected THEN Answer(c, "conflict")
     ELSE IF next.revokedAt < record.issuedAt THEN Answer(c, "invalid")
     ELSE [call[c] EXCEPT !.pc = "commit", !.kind = "revoked", !.at = next.revokedAt,
                          !.next = next]

Decide(c) ==
  /\ call[c].pc = "decide"
  /\ call' = [call EXCEPT ![c] = IF call[c].op = "authenticate"
                                 THEN DecideUse(c) ELSE DecideRevocation(c)]
  /\ UNCHANGED <<cell, durable>> /\ ClockStays

EventOf(c) ==
  PATAuditEvent(call[c].secret, call[c].kind,
                IF call[c].kind = "used" THEN call[c].scope ELSE NoScope,
                call[c].at, call[c].next.version)

\* The second transaction: compare, write the record, append its audit entry.
Commit(c) ==
  /\ call[c].pc = "commit"
  /\ LET result == CommitPAT(cell, call[c].record.version, call[c].next, EventOf(c))
     IN \/ /\ result.err = "ok"
           /\ cell' = result.state
           /\ call' = [call EXCEPT ![c].pc = "committed",
                                   ![c].entry = Len(result.state.audit)]
        \/ /\ result.err = "conflict" /\ call[c].op = "authenticate"
           /\ call' = [call EXCEPT ![c] = Retry(c, "load")]
           /\ UNCHANGED cell
        \/ /\ result.err # "ok" /\ ~(result.err = "conflict" /\ call[c].op = "authenticate")
           /\ call' = [call EXCEPT ![c] = Answer(c, safeError(result.err))]
           /\ UNCHANGED cell
  /\ UNCHANGED durable /\ ClockStays

CommitBarrier(c) ==
  /\ call[c].pc = "committed"
  /\ durable' = cell
  /\ call' = [call EXCEPT ![c] = Answer(c, "ok")]
  /\ UNCHANGED cell /\ ClockStays

\* The source fails a transaction or a barrier, or the caller's context ends.
\* What was committed stays committed.
Fail(c) ==
  /\ call[c].pc \in {"create", "load", "loaded", "commit", "committed"}
  /\ call' = [call EXCEPT ![c] = [Answer(c, "unavailable") EXCEPT !.entry = 0]]
  /\ UNCHANGED <<cell, durable>> /\ ClockStays

----------------------------------------------------------------------------
\* The source makes what it committed durable on its own account.
Flush ==
  /\ durable # cell /\ durable' = cell
  /\ UNCHANGED <<cell, call, now, faults>>

\* The source fails and comes back with what was durable.  A token it lost is
\* never confirmed; a call that holds a confirmed snapshot goes on.
Crash ==
  /\ faults.crashes < MaxCrashes
  /\ cell' = durable
  /\ faults' = [faults EXCEPT !.crashes = @ + 1]
  /\ call' = [c \in Calls |->
       IF call[c].pc \in {"loaded", "committed"}
       THEN [Answer(c, "unavailable") EXCEPT !.entry = 0] ELSE call[c]]
  /\ UNCHANGED <<durable, now>>

Tick ==
  /\ now < MaxTime /\ now' = now + 1
  /\ UNCHANGED <<cell, durable, call, faults>>

SetBack ==
  /\ faults.setBacks < MaxSetBacks /\ now > 1 /\ now' = now - 1
  /\ faults' = [faults EXCEPT !.setBacks = @ + 1]
  /\ UNCHANGED <<cell, durable, call>>

CallStep(c) ==
  \/ \E s \in Secrets : IssueCreate(c, s)
  \/ Load(c)
  \/ LoadBarrier(c)
  \/ Decide(c)
  \/ Commit(c)
  \/ CommitBarrier(c)

Begin(c) ==
  \/ \E scopes \in SUBSET Scopes : Issue(c, scopes)
  \/ \E s \in Secrets : \/ \E scope \in Scopes : Authenticate(c, s, scope)
                        \/ \E v \in 1 .. MaximumAuditEntries : Revoke(c, s, v)

Next ==
  \/ \E c \in Calls : Begin(c) \/ CallStep(c) \/ Fail(c)
  \/ Flush
  \/ Crash
  \/ Tick
  \/ SetBack

Spec == Init /\ [][Next]_vars

----------------------------------------------------------------------------
TypeOK ==
  /\ cell.audit \in Seq([secret : Secrets, kind : {"issued", "used", "revoked"},
                         scope : Scopes \cup {NoScope}, at : Nat, version : Nat,
                         committedAt : Nat])
  /\ now \in 1 .. MaxTime
  /\ \A c \in Calls : call[c].pc \in {"idle", "create", "load", "loaded", "decide",
                                      "commit", "committed", "done"}

\* No sequence of accepted calls leads the store to a state it refuses itself
\* (ErrCorruptState): the checks of CommitPAT and CreatePAT are enough for the
\* replay of the whole chain in validateState, set-back clocks included.
NeverCorrupt ==
  /\ validateState(cell) /\ validateState(durable)
  /\ \A c \in Calls : call[c].answer # "corrupt"

\* What was answered stands: the audit entry of every successful call is in the
\* durable chain at the place it was committed, whatever the source lost, and
\* no two calls share one.
AnswersSurvive ==
  \A c \in Calls : call[c].answer = "ok" /\ call[c].entry # 0 =>
    /\ call[c].entry <= Len(durable.audit)
    /\ LET e == durable.audit[call[c].entry]
       IN e.secret = call[c].secret /\ e.kind = call[c].kind /\ e.at = call[c].at
    /\ \A d \in Calls \ {c} : call[d].answer = "ok" => call[d].entry # call[c].entry

\* Once a revocation was answered (also one answered from a record that was
\* already revoked), no call that begins later authenticates with the token.
RevocationHolds ==
  \A c \in Calls : call[c].late => call[c].answer # "ok"

\* A token is accepted only in its lifetime, for a scope it carries, and not
\* after a revocation that precedes the use in the chain.
UsesWithinGrant ==
  \A c \in Calls : call[c].op = "authenticate" /\ call[c].answer = "ok" =>
    LET r == durable.records[call[c].secret]
    IN /\ call[c].scope \in r.scopes
       /\ call[c].at >= r.issuedAt /\ call[c].at < r.expiresAt
       /\ durable.audit[call[c].entry].committedAt < r.expiresAt
       /\ \A i \in 1 .. call[c].entry : durable.audit[i].secret = call[c].secret =>
            durable.audit[i].kind # "revoked"

----------------------------------------------------------------------------
(* Checkpoints of the audit chain. *)

checkpointVars == <<receipts, durableReceipts, publish, signings, exporter>>
allVars == <<vars, checkpointVars>>

NoState == [records |-> [s \in {} |-> NoRecord], audit |-> <<>>]

\* Checkpoint: the claims about a head, and the signature over them.  The other
\* claims are the template New fixes for the publisher's life.
Checkpoint(state, signature) == [state |-> state, signature |-> signature]
NoCheckpoint == Checkpoint(NoState, 0)

NoPublish == [pc |-> "idle", claims |-> NoState, result |-> NoCheckpoint, answer |-> "none"]

HeadSequence(state) == Len(state.audit)

CheckpointInit ==
  /\ Init
  /\ receipts = [n \in 0 .. MaximumAuditEntries |-> NoCheckpoint]
  /\ durableReceipts = receipts
  /\ publish = [p \in Publishes |-> NoPublish]
  /\ signings = [good |-> 0, bad |-> 0]
  /\ exporter = [pc |-> "idle", page |-> <<>>, collected |-> <<>>]

Returned(p, answer, result) ==
  [NoPublish EXCEPT !.pc = "done", !.answer = answer, !.result = result]

\* The barrier of a token confirms everything committed before it.
Barrier == durable' = cell /\ durableReceipts' = receipts

PublishFrame == UNCHANGED <<cell, call, now, faults, exporter>>

\* ReadAuditSnapshot: head and state of one transaction, then its barrier.
ReadAuditSnapshot(p) ==
  /\ publish[p].pc = "idle"
  /\ publish' = [publish EXCEPT ![p].pc = "snapshot", ![p].claims = cell]
  /\ PublishFrame /\ UNCHANGED <<durable, receipts, durableReceipts, signings>>

SnapshotBarrier(p) ==
  /\ publish[p].pc = "snapshot" /\ Barrier
  /\ publish' = [publish EXCEPT ![p].pc = "lookup"]
  /\ PublishFrame /\ UNCHANGED <<receipts, signings>>

\* transact: the state must still be the claimed one; an existing receipt of
\* the head is the result, whoever signed it; otherwise `offered' is written.
Existing(p) == receipts[HeadSequence(publish[p].claims)]

Stale(p) == cell # publish[p].claims

Decoded(p) ==
  IF Existing(p).state = publish[p].claims
  THEN [publish[p] EXCEPT !.pc = "found", !.result = Existing(p)]
  ELSE Returned(p, "conflict", NoCheckpoint)

Lookup(p) ==
  /\ publish[p].pc = "lookup"
  /\ publish' = [publish EXCEPT ![p] =
       IF Stale(p) THEN Returned(p, "stale", NoCheckpoint)
       ELSE IF Existing(p) # NoCheckpoint THEN Decoded(p)
       ELSE [@ EXCEPT !.pc = "absent"]]
  /\ PublishFrame /\ UNCHANGED <<durable, receipts, durableReceipts, signings>>

AbsentBarrier(p) ==
  /\ publish[p].pc = "absent" /\ Barrier
  /\ publish' = [publish EXCEPT ![p].pc = "sign"]
  /\ PublishFrame /\ UNCHANGED <<receipts, signings>>

\* SignCheckpoint answers with a signature over the claims ...
SignCheckpoint(p) ==
  /\ publish[p].pc = "sign"
  /\ signings' = [signings EXCEPT !.good = @ + 1]
  /\ publish' = [publish EXCEPT ![p].pc = "publish",
                   ![p].result = Checkpoint(publish[p].claims, signings.good + 1)]
  /\ PublishFrame /\ UNCHANGED <<durable, receipts, durableReceipts>>

\* ... or with one that is for another key or digest, or does not verify.
SignWrongly(p) ==
  /\ publish[p].pc = "sign" /\ signings.bad < MaxBadSignings
  /\ signings' = [signings EXCEPT !.bad = @ + 1]
  /\ publish' = [publish EXCEPT ![p] = Returned(p, "invalid", NoCheckpoint)]
  /\ PublishFrame /\ UNCHANGED <<durable, receipts, durableReceipts>>

PublishReceipt(p) ==
  /\ publish[p].pc = "publish"
  /\ IF Stale(p) \/ Existing(p) # NoCheckpoint
     THEN /\ publish' = [publish EXCEPT ![p] =
               IF Stale(p) THEN Returned(p, "stale", NoCheckpoint) ELSE Decoded(p)]
          /\ UNCHANGED receipts
     ELSE /\ receipts' = [receipts EXCEPT ![HeadSequence(publish[p].claims)] = publish[p].result]
          /\ publish' = [publish EXCEPT ![p].pc = "found"]
  /\ PublishFrame /\ UNCHANGED <<durable, durableReceipts, signings>>

\* Only a confirmed receipt is exposed.
FoundBarrier(p) ==
  /\ publish[p].pc = "found" /\ Barrier
  /\ publish' = [publish EXCEPT ![p] = Returned(p, "ok", publish[p].result)]
  /\ PublishFrame /\ UNCHANGED <<receipts, signings>>

\* Storage or signer fails, or the context ends.
PublishFails(p) ==
  /\ publish[p].pc \notin {"idle", "done"}
  /\ publish' = [publish EXCEPT ![p] = Returned(p, "unavailable", NoCheckpoint)]
  /\ PublishFrame /\ UNCHANGED <<durable, receipts, durableReceipts, signings>>

----------------------------------------------------------------------------

\* ReadAudit: the entries after the last sequence the exporter has, at most
\* PageLimit of them.
ReadAudit ==
  /\ exporter.pc = "idle"
  /\ LET after == Len(exporter.collected)
         end == IF Len(cell.audit) < after + PageLimit THEN Len(cell.audit)
                ELSE after + PageLimit
     IN /\ after < Len(cell.audit)
        /\ exporter' = [exporter EXCEPT !.pc = "read",
                          !.page = SubSeq(cell.audit, after + 1, end)]
  /\ UNCHANGED <<vars, receipts, durableReceipts, publish, signings>>

PageBarrier ==
  /\ exporter.pc = "read" /\ Barrier
  /\ exporter' = [pc |-> "idle", page |-> <<>>, collected |-> exporter.collected \o exporter.page]
  /\ UNCHANGED <<cell, call, now, faults, receipts, publish, signings>>

----------------------------------------------------------------------------
\* A step of the token service: what it makes durable includes the receipts.
TokenStep ==
  /\ \/ \E c \in Calls : Begin(c) \/ CallStep(c)
     \/ Flush
  /\ durableReceipts' = IF durable' = durable THEN durableReceipts ELSE receipts
  /\ UNCHANGED <<receipts, publish, signings, exporter>>

\* The source loses what no barrier confirmed, receipts included.
SourceCrash ==
  /\ Crash
  /\ receipts' = durableReceipts
  /\ publish' = [p \in Publishes |->
       IF publish[p].pc \in {"snapshot", "absent", "found"}
       THEN Returned(p, "unavailable", NoCheckpoint) ELSE publish[p]]
  /\ exporter' = [exporter EXCEPT !.pc = "idle", !.page = <<>>]
  /\ UNCHANGED <<durableReceipts, signings>>

PublishStep(p) ==
  \/ ReadAuditSnapshot(p)
  \/ SnapshotBarrier(p)
  \/ Lookup(p)
  \/ AbsentBarrier(p)
  \/ SignCheckpoint(p)
  \/ SignWrongly(p)
  \/ PublishReceipt(p)
  \/ FoundBarrier(p)
  \/ PublishFails(p)

CheckpointNext ==
  \/ TokenStep
  \/ SourceCrash
  \/ \E p \in Publishes : PublishStep(p)
  \/ ReadAudit
  \/ PageBarrier

----------------------------------------------------------------------------
\* An exposed checkpoint attests a head the chain really had and still extends,
\* and its receipt outlives a failure of the source: calls that raced for a head
\* return one signature, and no call ever meets another checkpoint of its head.
CheckpointsStand ==
  \A p \in Publishes :
    /\ publish[p].answer # "conflict"
    /\ publish[p].answer = "ok" =>
         /\ IsPrefix(publish[p].result.state.audit, durable.audit)
         /\ durableReceipts[HeadSequence(publish[p].result.state)] = publish[p].result
         /\ validateState(publish[p].result.state)

\* What the exporter has taken is a gapless beginning of the durable chain: no
\* entry is exported twice, skipped, or taken back by a failure.
ExportStands == IsPrefix(exporter.collected, durable.audit)
=============================================================================
