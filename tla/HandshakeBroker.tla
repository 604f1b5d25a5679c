--------------------------- MODULE HandshakeBroker ----------------------------
(***************************************************************************)
(* The broker between the NsJail launcher and sandboxd                     *)
(* (internal/executor/nsjail/broker_linux.go) for one sandbox identity:    *)
(* the launcher registers a one-time nonce for a generation, callers await *)
(* one shared readiness attempt, and revocation cancels that attempt and   *)
(* releases what the registration holds.  sandboxd creates its socket late *)
(* and the endpoint may be replaced at any moment.                         *)
(***************************************************************************)
EXTENDS Naturals

CONSTANTS Generations,    \* the generations that are launched, 1..n
          Awaiters,       \* callers of AwaitReady
          MaxReplacements,\* bound on the changes of the control endpoint
          MaxFaults       \* bound on the failures of clients and callers

BrokerBounds ==
  /\ Generations \subseteq Nat \ {0}
  /\ MaxReplacements \in Nat /\ MaxFaults \in Nat

VARIABLES active,     \* broker.active: the registered generation, 0 for none
          latest,     \* broker.latest, 0 for none
          reg,        \* the registrations
          endpoint,   \* the control socket of each generation on the host
          calls,      \* AwaitReady calls
          faults

vars == <<active, latest, reg, endpoint, calls, faults>>

\* sandboxHandshakeRegistration.  `attempt' is where runHandshake is, `pinned'
\* the identity of the socket it holds, `client' and `held' the control client
\* of the attempt and of the registration.
NoRegistration ==
  [revoke |-> "no", nonce |-> "none", directory |-> "none", socket |-> "none",
   attempt |-> "none", cancelled |-> FALSE, pinned |-> 0,
   client |-> "none", held |-> FALSE, error |-> FALSE]

NoCall == [at |-> "idle", gen |-> 0, answer |-> "none", newest |-> 0]

\* The socket: 0 while sandboxd has not made it private yet, then the number of
\* the inode behind the name.
Init ==
  /\ active = 0 /\ latest = 0
  /\ reg = [g \in Generations |-> NoRegistration]
  /\ endpoint = [g \in Generations |-> 0]
  /\ calls = [c \in Awaiters |-> NoCall]
  /\ faults = 0

Fails == faults < MaxFaults /\ faults' = faults + 1
Registered(g) == reg[g].nonce # "none"

--------------------------------------------------------------------------------
(* The host: sandboxd makes its socket private, or the endpoint is replaced. *)

EndpointChanges(g) ==
  /\ Registered(g)
  /\ endpoint[g] < MaxReplacements + 1
  /\ endpoint' = [endpoint EXCEPT ![g] = @ + 1]
  /\ UNCHANGED <<active, latest, reg, calls, faults>>

--------------------------------------------------------------------------------
(* Registration and revocation.                                            *)

\* RegisterHandshakeNonce, all under the mutex: no other registration is active,
\* the generation is new, the control directory opens as sealed and holds no
\* socket yet.
RegisterHandshakeNonce(g) ==
  /\ active = 0
  /\ g > latest
  /\ endpoint[g] = 0
  /\ reg' = [reg EXCEPT ![g].nonce = "held", ![g].directory = "open"]
  /\ active' = g
  /\ latest' = g
  /\ UNCHANGED <<endpoint, calls, faults>>

\* beginRevoke
BeginRevoke(g) ==
  /\ Registered(g)
  /\ reg[g].revoke = "no"
  /\ reg' = [reg EXCEPT ![g].revoke = "started", ![g].nonce = "cleared", ![g].cancelled = TRUE]
  /\ active' = IF active = g THEN 0 ELSE active
  /\ UNCHANGED <<latest, endpoint, calls, faults>>

\* finishRevoke waits for attemptDone, when there is an attempt.
AttemptOver(g) == reg[g].attempt \in {"none", "done"}

\* finishRevoke, first critical section: the client and descriptors are taken
\* over from the registration.
FinishRevokeTakes(g) ==
  /\ reg[g].revoke = "started"
  /\ AttemptOver(g)
  /\ reg' = [reg EXCEPT ![g].revoke = "closing"]
  /\ UNCHANGED <<active, latest, endpoint, calls, faults>>

\* finishRevoke, to its end: everything taken over is closed, whether or not one
\* of the closes fails.
FinishRevokeCloses(g) ==
  /\ reg[g].revoke = "closing"
  /\ reg' = [reg EXCEPT ![g].revoke = "done",
                        ![g].client = IF reg[g].held THEN "closed" ELSE @,
                        ![g].directory = "closed",
                        ![g].socket = IF @ = "open" THEN "closed" ELSE @]
  /\ UNCHANGED <<active, latest, endpoint, calls, faults>>

--------------------------------------------------------------------------------
(* AwaitReady.                                                             *)

\* The entry: the generation must be the active one; the first caller starts
\* the attempt.
AwaitReady(c, g) ==
  /\ calls[c].at = "idle"
  /\ IF active # g
       THEN /\ calls' = [calls EXCEPT ![c].at = "done", ![c].gen = g,
                                      ![c].answer = IF g <= latest THEN "stale" ELSE "not found"]
            /\ UNCHANGED reg
       ELSE /\ calls' = [calls EXCEPT ![c].at = "waiting", ![c].gen = g]
            /\ reg' = [reg EXCEPT ![g].attempt = IF @ = "none" THEN "polling" ELSE @]
  /\ UNCHANGED <<active, latest, endpoint, faults>>

\* Lines 233-244
AnswerOf(g) ==
  CASE reg[g].revoke # "no" -> "revoked"
    [] reg[g].revoke = "no" /\ reg[g].error -> "failed"
    [] OTHER -> "session"

\* The wait ends with the attempt, or with the caller's own context.
AwaitReturns(c) ==
  /\ calls[c].at = "waiting"
  /\ reg[calls[c].gen].attempt = "done"
  /\ calls' = [calls EXCEPT ![c].at = "done", ![c].answer = AnswerOf(calls[c].gen),
                            ![c].newest = latest]
  /\ UNCHANGED <<active, latest, reg, endpoint, faults>>

AwaitGivesUp(c) ==
  /\ calls[c].at = "waiting"
  /\ Fails
  /\ calls' = [calls EXCEPT ![c].at = "done", ![c].answer = "gave up"]
  /\ UNCHANGED <<active, latest, reg, endpoint>>

--------------------------------------------------------------------------------
(* runHandshake and connectRegisteredSandbox.                              *)

\* The attempt goes on to where runHandshake looks at its result.
AttemptFails(g) == [reg EXCEPT ![g].attempt = "ending", ![g].error = TRUE]

\* Lines 351-413: poll until the socket is there, private, and owned by the
\* registered server; it is pinned by an O_PATH descriptor.
PollSocket(g) ==
  /\ reg[g].attempt = "polling"
  /\ \/ /\ reg[g].cancelled
        /\ reg' = AttemptFails(g)
        /\ UNCHANGED faults
     \/ /\ endpoint[g] > 0
        /\ reg' = [reg EXCEPT ![g].attempt = "pinned", ![g].pinned = endpoint[g]]
        /\ UNCHANGED faults
     \/ /\ Fails
        /\ reg' = AttemptFails(g)
  /\ UNCHANGED <<active, latest, endpoint, calls>>

\* Lines 415-424: under the mutex the socket is handed to the registration and
\* the nonce taken out of it; a revoked registration has neither.
TakeNonce(g) ==
  /\ reg[g].attempt = "pinned"
  /\ reg' = IF reg[g].revoke # "no"
              THEN AttemptFails(g)
              ELSE [reg EXCEPT ![g].attempt = "connecting", ![g].socket = "open",
                               ![g].nonce = "cleared"]
  /\ UNCHANGED <<active, latest, endpoint, calls, faults>>

\* Lines 425-438
NewClient(g) ==
  /\ reg[g].attempt = "connecting"
  /\ \/ /\ reg' = [reg EXCEPT ![g].attempt = "checking", ![g].client = "open"]
        /\ UNCHANGED faults
     \/ /\ Fails
        /\ reg' = AttemptFails(g)
  /\ UNCHANGED <<active, latest, endpoint, calls>>

\* Lines 439-475: directory and socket must still be the ones that were pinned.
CheckEndpoint(g) ==
  /\ reg[g].attempt = "checking"
  /\ reg' = IF endpoint[g] = reg[g].pinned THEN [reg EXCEPT ![g].attempt = "readying"]
                                           ELSE AttemptFails(g)
  /\ UNCHANGED <<active, latest, endpoint, calls, faults>>

\* Line 476: sandboxd answers the authenticated readiness call, refuses it, or
\* the attempt is cancelled.
ClientReady(g) ==
  /\ reg[g].attempt = "readying"
  /\ \/ /\ reg' = [reg EXCEPT ![g].attempt = "ending"]
        /\ UNCHANGED faults
     \/ /\ reg[g].cancelled
        /\ reg' = AttemptFails(g)
        /\ UNCHANGED faults
     \/ /\ Fails
        /\ reg' = AttemptFails(g)
  /\ UNCHANGED <<active, latest, endpoint, calls>>

KeepsClient(g) == ~reg[g].error /\ reg[g].revoke = "no"

\* runHandshake, lines 324-343: the client becomes the registration's, or is
\* closed outside the mutex.
HandshakeEnds(g) ==
  /\ reg[g].attempt = "ending"
  /\ reg' = IF KeepsClient(g)
              THEN [reg EXCEPT ![g].held = TRUE, ![g].attempt = "done"]
              ELSE [reg EXCEPT ![g].attempt = "closing", ![g].error = TRUE]
  /\ UNCHANGED <<active, latest, endpoint, calls, faults>>

CloseRejectedClient(g) ==
  /\ reg[g].attempt = "closing"
  /\ reg' = [reg EXCEPT ![g].attempt = "done",
                        ![g].client = IF @ = "open" THEN "closed" ELSE @]
  /\ UNCHANGED <<active, latest, endpoint, calls, faults>>

--------------------------------------------------------------------------------
AttemptStep(g) ==
  \/ PollSocket(g) \/ TakeNonce(g) \/ NewClient(g) \/ CheckEndpoint(g)
  \/ ClientReady(g) \/ HandshakeEnds(g) \/ CloseRejectedClient(g)

Next ==
  \/ \E g \in Generations :
       \/ EndpointChanges(g) \/ RegisterHandshakeNonce(g) \/ BeginRevoke(g)
       \/ FinishRevokeTakes(g) \/ FinishRevokeCloses(g) \/ AttemptStep(g)
       \/ \E c \in Awaiters : AwaitReady(c, g)
  \/ \E c \in Awaiters : AwaitReturns(c) \/ AwaitGivesUp(c)

\* The attempt's and the revocation's goroutines run.  An attempt whose socket
\* never appears polls on until it is revoked: nothing makes the socket appear.
Spec ==
  /\ Init /\ [][Next]_vars
  /\ \A g \in Generations : /\ WF_vars(AttemptStep(g))
                            /\ WF_vars(FinishRevokeTakes(g)) /\ WF_vars(FinishRevokeCloses(g))
  /\ \A c \in Awaiters : WF_vars(AwaitReturns(c))

--------------------------------------------------------------------------------
TypeOK ==
  /\ active \in Generations \cup {0} /\ latest \in Generations \cup {0}
  /\ \A g \in Generations :
       /\ reg[g].revoke \in {"no", "started", "closing", "done"}
       /\ reg[g].client \in {"none", "open", "closed"}

\* Once a revocation is over, nothing of the registration is left: the nonce is
\* forgotten, both descriptors and the client are closed, and no attempt runs
\* that could still open any (broker_linux.go:287-317, 415-424).
RevocationReleases ==
  \A g \in Generations :
    reg[g].revoke = "done" =>
      /\ reg[g].nonce # "held"
      /\ reg[g].directory # "open" /\ reg[g].socket # "open" /\ reg[g].client # "open"
      /\ reg[g].attempt \in {"none", "done"}

\* A caller is never handed the session of a generation that is not the newest
\* one registered, however late it wakes up (broker_linux.go:233-244).
SessionsAreNewest ==
  \A c \in Awaiters : calls[c].answer = "session" => calls[c].newest = calls[c].gen

\* A control client that is open always has an owner that will close it: the
\* attempt that built it, or the registration (broker_linux.go:319-343).
ClientsAreOwned ==
  \A g \in Generations :
    reg[g].client = "open" => reg[g].held \/ reg[g].attempt \notin {"none", "done"}

================================================================================
