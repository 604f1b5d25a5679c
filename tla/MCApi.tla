-------------------------------- MODULE MCApi --------------------------------
(***************************************************************************)
(* What stands at the front of the platform, checked side by side: the     *)
(* session journal over its two repositories, the access tokens and the    *)
(* checkpoints of their audit chain, the logins, and the client of the     *)
(* state app.  A behaviour is of one part; the variables of the others do  *)
(* not move.                                                               *)
(***************************************************************************)
EXTENDS PlatformJournal, TLC

CONSTANTS
  Parts,        \* the parts a run explores
  x1, x2, x3,   \* interchangeable calls, operations, requests
  y1, y2,       \* interchangeable publishers, digests, connections
  s1, read, alice, right, dummy, k1, i1

VARIABLES
  part,         \* the part this behaviour is of
  cell, durable, call, now, faults, slots,                  \* PatTokens, LoginAccounts
  receipts, durableReceipts, publish, signings, exporter,
  closed, closeDone, keys, gate, requests, conns, replies, closers   \* StateAppClient

\* Calls that issue, use and revoke one token; the clock is set back, the store fails
Tokens == INSTANCE PatTokens WITH
  Calls <- {x1, x2, x3}, Secrets <- {s1}, Scopes <- {read}, NoSecret <- None, NoScope <- None,
  Lifetime <- 1, MaximumCASRetries <- 2, MaximumRecords <- 1, MaximumAuditEntries <- 3,
  MaxTime <- 2, MaxSetBacks <- 1, MaxCrashes <- 1,
  Publishes <- {}, PageLimit <- 1, MaxBadSignings <- 0

\* Two publishers and an exporter behind a chain of two entries
Checkpoints == INSTANCE PatTokens WITH
  Calls <- {x1, x2}, Secrets <- {s1}, Scopes <- {read}, NoSecret <- None, NoScope <- None,
  Lifetime <- 2, MaximumCASRetries <- 1, MaximumRecords <- 1, MaximumAuditEntries <- 2,
  MaxTime <- 1, MaxSetBacks <- 0, MaxCrashes <- 0,
  Publishes <- {y1, y2}, PageLimit <- 1, MaxBadSignings <- 1

\* An account is created and logged in to, its chain soon full; the store fails
Logins == INSTANCE LoginAccounts WITH
  Calls <- {x1, x2, x3}, Users <- {alice}, Passwords <- {right, dummy}, DummyPassword <- dummy,
  NoUser <- None, NoPassword <- None, MaximumFailures <- 1, LockoutDuration <- 1,
  MaximumCASRetries <- 2, MaximumParallelHashes <- 1, MaximumRecords <- 1,
  MaximumAuditEntries <- 2, MaxTime <- 1, MaxSetBacks <- 0, MaxCrashes <- 1

\* Three logins to one account with two failures allowed; the clock is set back
Lockout == INSTANCE LoginAccounts WITH
  Calls <- {x1, x2, x3}, Users <- {alice}, Passwords <- {right, dummy}, DummyPassword <- dummy,
  NoUser <- None, NoPassword <- None, MaximumFailures <- 2, LockoutDuration <- 1,
  MaximumCASRetries <- 1, MaximumParallelHashes <- 1, MaximumRecords <- 1,
  MaximumAuditEntries <- 4, MaxTime <- 2, MaxSetBacks <- 1, MaxCrashes <- 0

\* Two requests of any kind, two connections, and Close
Client == INSTANCE StateAppClient WITH
  answers <- replies, Requests <- {x1, x2}, Closers <- {k1}, Connections <- {y1, y2},
  Operations <- {"events", "blob", "claim", "broker"},
  Configured <- {"read", "broker"}, Inputs <- {i1}

ASSUME JournalBounds
ASSUME Tokens!PatAssumption /\ Checkpoints!PatAssumption
ASSUME Logins!LoginAssumption /\ Lockout!LoginAssumption /\ Client!ConstantsDistinct

storeVars == <<cell, durable, call, now, faults>>
checkpointVars == <<receipts, durableReceipts, publish, signings, exporter>>
clientVars == <<closed, closeDone, keys, gate, requests, conns, replies, closers>>
apiVars == <<part, vars, storeVars, slots, checkpointVars, clientVars>>

NoStore == cell = 0 /\ durable = 0 /\ call = 0 /\ now = 0 /\ faults = 0
NoCheckpoints ==
  receipts = 0 /\ durableReceipts = 0 /\ publish = 0 /\ signings = 0 /\ exporter = 0
NoClient ==
  /\ closed = 0 /\ closeDone = 0 /\ keys = 0 /\ gate = 0 /\ requests = 0 /\ conns = 0
  /\ replies = 0 /\ closers = 0

PartInit ==
  /\ part \in Parts
  /\ Init
  /\ CASE part \in {"memory journal", "celld journal"}
                              -> NoStore /\ slots = 0 /\ NoCheckpoints /\ NoClient
       [] part = "tokens"      -> Tokens!Init /\ slots = 0 /\ NoCheckpoints /\ NoClient
       [] part = "checkpoints" -> Checkpoints!CheckpointInit /\ slots = 0 /\ NoClient
       [] part = "logins"      -> Logins!Init /\ NoCheckpoints /\ NoClient
       [] part = "lockout"     -> Lockout!AccountCreated /\ NoCheckpoints /\ NoClient
       [] part = "client"      -> Client!Init /\ NoStore /\ slots = 0 /\ NoCheckpoints

PartNext ==
  \/ /\ \/ part = "memory journal" /\ MemoryNext
        \/ part = "celld journal" /\ CelldNext
     /\ UNCHANGED <<part, storeVars, slots, checkpointVars, clientVars>>
  \/ part = "tokens" /\ Tokens!Next /\ UNCHANGED <<part, vars, slots, checkpointVars, clientVars>>
  \/ part = "checkpoints" /\ Checkpoints!CheckpointNext /\ UNCHANGED <<part, vars, slots, clientVars>>
  \/ /\ \/ part = "logins" /\ Logins!Next
        \/ part = "lockout" /\ Lockout!LoginNext
     /\ UNCHANGED <<part, vars, checkpointVars, clientVars>>
  \/ part = "client" /\ Client!Next /\ UNCHANGED <<part, vars, storeVars, slots, checkpointVars>>

PartSpec == PartInit /\ [][PartNext]_apiVars

Symmetry == Permutations({x1, x2, x3}) \cup Permutations({y1, y2})

----------------------------------------------------------------------------
\* A key names one request and one turn, the journal alone tells the state of every turn and
\* of the snapshot, an append is in it once however often it is repeated, and a reader whose
\* authority was revoked is not given what was published under the next.
JournalSound ==
  /\ part \in {"memory journal", "celld journal"} =>
       OneTurnPerKey /\ JournalExplainsTurns /\ AppendedOnce
  /\ part = "memory journal" => RetryAnswered /\ NothingAfterRevocation


\* Every answer to a login is of an entry in the durable chain, the chain explains the
\* accounts, nobody is authenticated with another password, and none within a lockout.
LoginsSound ==
  /\ part = "logins" => Logins!NeverCorrupt /\ Logins!AnswersAudited /\ Logins!OwnPassword
  /\ part = "lockout" => Lockout!NeverCorrupt /\ Lockout!LockoutHonoured

\* The derived keys outlive every request that may still use them, Close leaves no connection
\* behind, one whose dial was under way included, and an answer is given to its own request.
ClientSound ==
  part = "client" => Client!KeysOutliveRequests /\ Client!NothingLeftOpen /\ Client!AnswerIsMine
=============================================================================
