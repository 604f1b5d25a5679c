--------------------------- MODULE LoginAccounts ---------------------------
(***************************************************************************)
(* Local accounts: auth.Authenticator over authstate.AccountStore.  An     *)
(* attempt loads the account, verifies the password in one of a few hash   *)
(* slots, computes the next account (failures, lockout) and commits it     *)
(* with its audit entry if the account's version has not moved; otherwise  *)
(* it starts over.  The store replays the whole audit chain through the    *)
(* same transition before it writes.                                       *)
(*                                                                         *)
(* A store call is a transaction and a durability barrier, as in           *)
(* PatTokens.  A password hash is the password it was made from; times are *)
(* ticks, 0 the zero time; the clock may be set back.                      *)
(***************************************************************************)
EXTENDS Integers, Sequences, SequencesExt, FiniteSets

CONSTANTS
  Calls,             \* calls of Authenticate and CreateAccount, each made once
  Users, Passwords,  \* user names and passwords of the instance
  DummyPassword,     \* what AuthenticatorConfig.DummyPasswordHash hashes
  NoUser, NoPassword,
  MaximumFailures, LockoutDuration,           \* LoginPolicy
  MaximumCASRetries, MaximumParallelHashes,   \* AuthenticatorConfig
  MaximumRecords, MaximumAuditEntries,        \* authstate.Config
  MaxTime, MaxSetBacks, MaxCrashes            \* bounds of the environment

VARIABLES cell, durable, call, slots, now, faults

vars == <<cell, durable, call, slots, now, faults>>

\* What NewAuthenticator asks of the configuration.
AuthenticatorAccepted ==
  /\ MaximumFailures \in 1 .. 100 /\ LockoutDuration \in 1 .. 30
  /\ MaximumCASRetries \in 1 .. 256 /\ MaximumParallelHashes \in 1 .. 128
  /\ DummyPassword \in Passwords

\* What NewAccountStore asks of it.
AccountStoreAccepted ==
  /\ MaximumFailures \in 1 .. 100 /\ LockoutDuration \in 1 .. 30
  /\ MaximumRecords \in 1 .. 4096 /\ MaximumAuditEntries \in 1 .. 65536

LoginAssumption == AuthenticatorAccepted /\ AccountStoreAccepted

----------------------------------------------------------------------------
\* auth.Account; version 0 is an account that does not exist.
NoAccount == [hash |-> NoPassword, disabled |-> FALSE, failed |-> 0,
              lockedUntil |-> 0, lastAuthenticatedAt |-> 0, version |-> 0]

NewAccount(password, disabled) ==
  [NoAccount EXCEPT !.hash = password, !.disabled = disabled, !.version = 1]

accountState == [accounts |-> [u \in Users |-> NoAccount], audit |-> <<>>]

\* The transition of an attempt.  A disabled or locked account does not change;
\* an expired lockout starts the count of failures over.
ApplyLoginAttempt(account, time, passwordValid) ==
  LET at == IF account.lastAuthenticatedAt > time THEN account.lastAuthenticatedAt ELSE time
      failed == (IF account.lockedUntil # 0 THEN 0 ELSE account.failed) + 1
  IN IF account.disabled THEN [account |-> account, status |-> "disabled"]
     ELSE IF at < account.lockedUntil THEN [account |-> account, status |-> "locked"]
     ELSE IF passwordValid
     THEN [account |-> [account EXCEPT !.failed = 0, !.lockedUntil = 0,
                          !.lastAuthenticatedAt = at, !.version = @ + 1],
           status |-> "authenticated"]
     ELSE [account |-> [account EXCEPT !.failed = failed, !.version = @ + 1,
                          !.lockedUntil = IF failed >= MaximumFailures
                                          THEN at + LockoutDuration ELSE 0],
           status |-> IF failed >= MaximumFailures THEN "locked" ELSE "invalid"]

\* LoginAuditEvent with the account state it led to; `known' is false for an
\* attempt on a name without an account.
LoginAuditEvent(kind, user, known, at, status) ==
  [kind |-> kind, user |-> user, known |-> known, at |-> at, status |-> status]

HistoryOf(audit, u) == SelectSeq(audit, LAMBDA e : e.user = u)

\* The account the entries of a name lead to, or "corrupt" in its status.
Replayed(h, account) ==
  FoldLeft(LAMBDA acc, e :
      LET next == ApplyLoginAttempt(acc.account, e.at, e.status = "authenticated")
      IN IF e.kind = "created"
         THEN [acc EXCEPT !.ok = @ /\ acc.account = NoAccount /\ account # NoAccount
                                   /\ e.account = NewAccount(account.hash, account.disabled),
                          !.account = NewAccount(account.hash, account.disabled),
                          !.createdAt = e.at]
         ELSE IF ~e.known
         THEN [acc EXCEPT !.ok = @ /\ acc.account = NoAccount /\ e.status = "invalid"]
         ELSE [acc EXCEPT !.ok = @ /\ acc.account # NoAccount /\ e.at >= acc.createdAt
                                   /\ next.status = e.status /\ next.account = e.account,
                          !.account = next.account],
    [ok |-> TRUE, account |-> NoAccount, createdAt |-> 0], h)

validAccount(a) == a.version >= 1 /\ a.failed <= MaximumFailures /\ a.hash # NoPassword

validateState(state) ==
  /\ Cardinality({u \in Users : state.accounts[u] # NoAccount}) <= MaximumRecords
  /\ Len(state.audit) <= MaximumAuditEntries
  /\ \A i \in DOMAIN state.audit :
       /\ state.audit[i].committedAt >= state.audit[i].at
       /\ i > 1 => state.audit[i].committedAt >= state.audit[i - 1].committedAt
  /\ \A u \in Users :
       LET replay == Replayed(HistoryOf(state.audit, u), state.accounts[u])
       IN /\ replay.ok /\ replay.account = state.accounts[u]
          /\ state.accounts[u] # NoAccount => validAccount(state.accounts[u])

\* The shapes parseAccount and parseAccountAudit admit, and what decodeState adds.
parseAccount(a) ==
  a.failed \in 0 .. 100 /\ a.version >= 0 /\ a.lockedUntil >= 0 /\ a.lastAuthenticatedAt >= 0

parseAccountAudit(e) ==
  e.at > 0 /\ e.committedAt > 0 /\ e.account.version >= 0 /\ e.user \in Users

decodeState(state) ==
  /\ \A u \in Users : parseAccount(state.accounts[u])
  /\ \A i \in DOMAIN state.audit : parseAccountAudit(state.audit[i])
  /\ validateState(state)

----------------------------------------------------------------------------
Refused(err) == [err |-> err, state |-> accountState]
Accepted(state) == [err |-> "ok", state |-> state]

appendAudit(state, event, account) ==
  IF Len(state.audit) >= MaximumAuditEntries THEN Refused("capacity")
  ELSE IF now < event.at \/ (state.audit # <<>> /\ now < Last(state.audit).committedAt)
       THEN Refused("clock")
  ELSE Accepted([state EXCEPT !.audit = Append(@,
         [kind |-> event.kind, user |-> event.user, known |-> event.known, at |-> event.at,
          status |-> event.status, account |-> account, committedAt |-> now])])

encodeState(result) ==
  IF result.err = "ok" /\ ~validateState(result.state)
  THEN Refused("corrupt") ELSE result

CreateAccount(state, user, account) ==
  IF ~decodeState(state) THEN Refused("corrupt")
  ELSE IF state.accounts[user] # NoAccount THEN Refused("conflict")
  ELSE IF Cardinality({u \in Users : state.accounts[u] # NoAccount}) >= MaximumRecords
       THEN Refused("capacity")
  ELSE encodeState(appendAudit([state EXCEPT !.accounts[user] = account],
         LoginAuditEvent("created", user, TRUE, now, "none"), account))

\* When the account of a name was created, from its audit entry.
CreationTime(state, user) ==
  LET h == SelectSeq(state.audit, LAMBDA e : e.user = user /\ e.kind = "created")
  IN IF h = <<>> THEN 0 ELSE h[1].at

\* version 0 is a nil expectedVersion: the attempt found no account.
CommitLoginAttempt(state, user, version, next, event) ==
  LET current == state.accounts[user]
      expected == ApplyLoginAttempt(current, event.at, event.status = "authenticated")
  IN IF ~decodeState(state) THEN Refused("corrupt")
     ELSE IF now < event.at THEN Refused("clock")
     ELSE IF current = NoAccount
     THEN IF version # 0 THEN Refused("conflict")
          ELSE encodeState(appendAudit(state, event, NoAccount))
     ELSE IF event.at < CreationTime(state, user) THEN Refused("clock")
     ELSE IF version = 0 \/ current.version # version THEN Refused("conflict")
     ELSE IF expected.status # event.status \/ expected.account # next THEN Refused("invalid")
     ELSE encodeState(appendAudit([state EXCEPT !.accounts[user] = next], event, next))

----------------------------------------------------------------------------
\* A call: `hash' is what was last verified (verifiedHash), `valid' the result.
NoCall == [op |-> "none", pc |-> "idle", user |-> NoUser, password |-> NoPassword,
           disabled |-> FALSE, attempt |-> 0, account |-> NoAccount, hash |-> NoPassword,
           valid |-> FALSE, next |-> NoAccount, status |-> "none", at |-> 0,
           entry |-> 0, answer |-> "none"]

Init ==
  /\ cell = accountState /\ durable = accountState
  /\ call = [c \in Calls |-> NoCall]
  /\ slots = 0
  /\ now = 1
  /\ faults = [setBacks |-> 0, crashes |-> 0]

Answer(c, answer) ==
  [call[c] EXCEPT !.pc = "done", !.answer = answer, !.attempt = 0, !.account = NoAccount,
                  !.next = NoAccount, !.hash = NoPassword, !.valid = FALSE]

Failed(c) == [Answer(c, "unavailable") EXCEPT !.entry = 0]

BeginCreate(c, user, password, disabled) ==
  /\ call[c].pc = "idle"
  /\ call' = [call EXCEPT ![c] = [NoCall EXCEPT !.op = "create", !.pc = "create",
                !.user = user, !.password = password, !.disabled = disabled]]
  /\ UNCHANGED <<cell, durable, slots, now, faults>>

Create(c) ==
  /\ call[c].pc = "create"
  /\ LET result == CreateAccount(cell, call[c].user,
                                 NewAccount(call[c].password, call[c].disabled))
     IN \/ /\ result.err = "ok" /\ cell' = result.state
           /\ call' = [call EXCEPT ![c].pc = "committed", ![c].at = now,
                         ![c].status = "created", ![c].entry = Len(result.state.audit)]
        \/ /\ result.err # "ok" /\ UNCHANGED cell
           /\ call' = [call EXCEPT ![c] = Answer(c, result.err)]
  /\ UNCHANGED <<durable, slots, now, faults>>

Authenticate(c, user, password) ==
  /\ call[c].pc = "idle"
  /\ call' = [call EXCEPT ![c] = [NoCall EXCEPT !.op = "login", !.pc = "load",
                !.user = user, !.password = password]]
  /\ UNCHANGED <<cell, durable, slots, now, faults>>

\* The hash to verify against: the account's, or the dummy one.
HashOf(account) == IF account = NoAccount THEN DummyPassword ELSE account.hash

\* Variant of Verify: what was verified once counts for every later attempt.
VerifyOnce(c, account) ==
  IF call[c].hash # NoPassword THEN "apply" ELSE "slot"

\* The password is verified unless this very hash already was.
Verify(c, account) ==
  IF call[c].hash = HashOf(account) THEN "apply" ELSE "slot"

\* LoadAccount.  Not found is an error of the transaction: no barrier follows.
LoadAccount(c) ==
  /\ call[c].pc = "load"
  /\ LET account == cell.accounts[call[c].user]
     IN call' = [call EXCEPT ![c].account = account,
                   ![c].pc = IF account = NoAccount THEN Verify(c, account) ELSE "loaded"]
  /\ UNCHANGED <<cell, durable, slots, now, faults>>

LoadBarrier(c) ==
  /\ call[c].pc = "loaded"
  /\ durable' = cell
  /\ call' = [call EXCEPT ![c].pc = Verify(c, call[c].account)]
  /\ UNCHANGED <<cell, slots, now, faults>>

\* A slot of hashSlots is taken, the password verified, the slot given back.
AcquireSlot(c) ==
  /\ call[c].pc = "slot" /\ slots < MaximumParallelHashes
  /\ slots' = slots + 1
  /\ call' = [call EXCEPT ![c].pc = "hashing"]
  /\ UNCHANGED <<cell, durable, now, faults>>

VerifyPassword(c) ==
  /\ call[c].pc = "hashing"
  /\ slots' = slots - 1
  /\ call' = [call EXCEPT ![c].pc = "apply", ![c].hash = HashOf(call[c].account),
                ![c].valid = call[c].password = HashOf(call[c].account)]
  /\ UNCHANGED <<cell, durable, now, faults>>

\* The time of the attempt is read after the verification.
Apply(c) ==
  /\ call[c].pc = "apply"
  /\ LET account == call[c].account
         next == ApplyLoginAttempt(account, now, call[c].valid)
     IN call' = [call EXCEPT ![c].pc = "commit", ![c].at = now,
                   ![c].next = IF account = NoAccount THEN NoAccount ELSE next.account,
                   ![c].status = IF account = NoAccount THEN "invalid" ELSE next.status]
  /\ UNCHANGED <<cell, durable, slots, now, faults>>

\* A conflict starts the attempt over with what was already verified.
Retry(c) ==
  IF call[c].attempt + 1 < MaximumCASRetries
  THEN [call[c] EXCEPT !.attempt = @ + 1, !.pc = "load", !.account = NoAccount,
                       !.next = NoAccount, !.status = "none"]
  ELSE Answer(c, "contended")

Commit(c) ==
  /\ call[c].pc = "commit"
  /\ LET known == call[c].account # NoAccount
         event == LoginAuditEvent("login", call[c].user, known, call[c].at, call[c].status)
         result == CommitLoginAttempt(cell, call[c].user, call[c].account.version,
                                      call[c].next, event)
     IN \/ /\ result.err = "ok" /\ cell' = result.state
           /\ call' = [call EXCEPT ![c].pc = "committed",
                                   ![c].entry = Len(result.state.audit)]
        \/ /\ result.err = "conflict" /\ UNCHANGED cell
           /\ call' = [call EXCEPT ![c] = Retry(c)]
        \/ /\ result.err \notin {"ok", "conflict"} /\ UNCHANGED cell
           /\ call' = [call EXCEPT ![c] = Answer(c, result.err)]
  /\ UNCHANGED <<durable, slots, now, faults>>

\* What the caller learns: every failed attempt looks the same.
Result(c) ==
  IF call[c].op = "create" THEN "created"
  ELSE IF call[c].status = "authenticated" THEN "authenticated" ELSE "rejected"

CommitBarrier(c) ==
  /\ call[c].pc = "committed"
  /\ durable' = cell
  /\ call' = [call EXCEPT ![c] = Answer(c, Result(c))]
  /\ UNCHANGED <<cell, slots, now, faults>>

\* The source fails, or the caller's context ends (not while hashing).
Fail(c) ==
  /\ call[c].pc \in {"create", "load", "loaded", "slot", "commit", "committed"}
  /\ call' = [call EXCEPT ![c] = Failed(c)]
  /\ UNCHANGED <<cell, durable, slots, now, faults>>

Crash ==
  /\ faults.crashes < MaxCrashes
  /\ cell' = durable
  /\ faults' = [faults EXCEPT !.crashes = @ + 1]
  /\ call' = [c \in Calls |-> IF call[c].pc \in {"loaded", "committed"}
                              THEN Failed(c) ELSE call[c]]
  /\ UNCHANGED <<durable, slots, now>>

Tick ==
  /\ now < MaxTime /\ now' = now + 1
  /\ UNCHANGED <<cell, durable, call, slots, faults>>

SetBack ==
  /\ faults.setBacks < MaxSetBacks /\ now > 1 /\ now' = now - 1
  /\ faults' = [faults EXCEPT !.setBacks = @ + 1]
  /\ UNCHANGED <<cell, durable, call, slots>>

CallStep(c) ==
  \/ Create(c)
  \/ LoadAccount(c)
  \/ LoadBarrier(c)
  \/ AcquireSlot(c)
  \/ VerifyPassword(c)
  \/ Apply(c)
  \/ Commit(c)
  \/ CommitBarrier(c)

Begin(c) ==
  \E u \in Users, p \in Passwords :
    \/ Authenticate(c, u, p)
    \/ \E disabled \in BOOLEAN : BeginCreate(c, u, p, disabled)

Next ==
  \/ \E c \in Calls : Begin(c) \/ CallStep(c) \/ Fail(c)
  \/ Crash
  \/ Tick
  \/ SetBack

Spec == Init /\ [][Next]_vars

\* The same service some time after an account was created, its store reliable.
AccountCreated ==
  \E u \in Users, p \in Passwords :
    LET account == NewAccount(p, FALSE) IN
    /\ cell = [accounts |-> [accountState.accounts EXCEPT ![u] = account],
               audit |-> <<[kind |-> "created", user |-> u, known |-> TRUE, at |-> 1,
                            status |-> "none", account |-> account, committedAt |-> 1]>>]
    /\ durable = cell
    /\ call = [c \in Calls |-> NoCall]
    /\ slots = 0 /\ now = 1 /\ faults = [setBacks |-> 0, crashes |-> 0]

LoginNext ==
  \/ \E c \in Calls : \/ \E u \in Users, p \in Passwords : Authenticate(c, u, p)
                      \/ CallStep(c)
  \/ Tick
  \/ SetBack

----------------------------------------------------------------------------
TypeOK ==
  /\ slots \in 0 .. MaximumParallelHashes
  /\ now \in 1 .. MaxTime
  /\ \A u \in Users : cell.accounts[u].failed \in 0 .. MaximumFailures

\* No sequence of accepted attempts leads the store to a state it refuses
\* itself: what CommitLoginAttempt admits, the replay of the chain accepts.
NeverCorrupt ==
  /\ validateState(cell) /\ validateState(durable)
  /\ \A c \in Calls : call[c].answer # "corrupt"

\* Every answer of the authenticator has its entry in the durable chain, which a
\* failure of the source cannot take back, and no two answers share one.
AnswersAudited ==
  \A c \in Calls : call[c].answer \in {"created", "authenticated", "rejected"} =>
    /\ call[c].entry \in DOMAIN durable.audit
    /\ LET e == durable.audit[call[c].entry]
       IN /\ e.user = call[c].user /\ e.at = call[c].at
          /\ (call[c].answer = "authenticated") = (e.status = "authenticated")
    /\ \A d \in Calls \ {c} : call[d].answer \in {"created", "authenticated", "rejected"} =>
         call[d].entry # call[c].entry

\* Entries of a name that changed its account, in order.
Effective(u) ==
  SelectSeq(HistoryOf(cell.audit, u), LAMBDA e : e.known /\ e.status # "disabled")

\* The lockout holds whatever attempts race: after a failure that locked the
\* account nobody is authenticated for LockoutDuration, and no run of
\* MaximumFailures failures goes by without locking it.
LockoutHonoured ==
  \A u \in Users :
    LET h == Effective(u) IN
    /\ \A i \in DOMAIN h : \A j \in 1 .. i - 1 :
         /\ h[i].status = "authenticated" /\ h[j].status = "locked"
         /\ h[j].account.version = h[i].account.version - 1
         /\ j > 1 => h[j - 1].account # h[j].account
         => h[i].at >= h[j].at + LockoutDuration
    /\ \A i \in DOMAIN h : i > MaximumFailures =>
         \E j \in i - MaximumFailures .. i - 1 :
           h[j].kind = "created" \/ h[j].status \in {"locked", "authenticated"}
             \/ h[i].status \in {"locked", "authenticated"}

\* Who is authenticated gave the password of that account, also when the account
\* appeared while the attempt was verifying against the dummy hash.
OwnPassword ==
  \A c \in Calls : call[c].answer = "authenticated" =>
    call[c].password = durable.accounts[call[c].user].hash
=============================================================================
