--------------------------- MODULE StateAppClient ---------------------------
(***************************************************************************)
(* The client platformd and the broker use to reach the state app          *)
(* (internal/stateappclient): signed requests over pooled connections, a   *)
(* gate around the identifier source, an authenticated answer, and Close,  *)
(* which cancels what is under way, waits for it and clears the keys.      *)
(*                                                                         *)
(* Connections are dialled by the transport, not by the request that asks  *)
(* for one: a dial may complete after its request was cancelled, and after *)
(* Close.  An answer may reach a request it was not made for.              *)
(***************************************************************************)
EXTENDS Naturals, FiniteSets

CONSTANTS
  Requests,     \* calls of the client's operations
  Closers,      \* callers of Close
  Connections,  \* connections that may be dialled
  Operations,   \* operations that are called
  Configured,   \* roles the client has credentials for
  Inputs,       \* what a caller may ask for
  None

ConstantsDistinct == None \notin Requests \cup Closers \cup Connections \cup Inputs

VARIABLES
  closed,     \* Close has begun
  closeDone,  \* Close has ended
  keys,       \* the derived keys are still there
  gate,       \* request that holds the identifier source, or None
  requests,   \* per request, how far it is
  conns,      \* per connection, its state
  answers,    \* answers the state app has made
  closers     \* per caller of Close, how far it is

vars == <<closed, closeDone, keys, gate, requests, conns, answers, closers>>

NoRequest == [phase |-> "idle", op |-> "none", input |-> None, id |-> 0, conn |-> None,
              cancelled |-> FALSE, reply |-> {}, outcome |-> "none"]

NoCloser == [phase |-> "idle", cancels |-> {}, conns |-> {}]

Init ==
  /\ closed = FALSE /\ closeDone = FALSE /\ keys = TRUE
  /\ gate = None
  /\ requests = [r \in Requests |-> NoRequest]
  /\ conns = [c \in Connections |-> "none"]
  /\ answers = {}
  /\ closers = [k \in Closers |-> NoCloser]

----------------------------------------------------------------------------
(* Operations: the role that signs, and what the answer must repeat. *)

ReadSessionEvents == [role |-> "read", echoes |-> FALSE]
ReadSessionBlob == [role |-> "read", echoes |-> TRUE]
ReadProviderResult == [role |-> "read", echoes |-> TRUE]
ClaimDispatchStart == [role |-> "dispatch", echoes |-> TRUE]
ExecuteSessionBroker == [role |-> "broker", echoes |-> FALSE]
ProbeProduction == [role |-> "none", echoes |-> FALSE]

Contract(op) ==
  CASE op = "events" -> ReadSessionEvents
    [] op = "blob" -> ReadSessionBlob
    [] op = "provider_result" -> ReadProviderResult
    [] op = "claim" -> ClaimDispatchStart
    [] op = "broker" -> ExecuteSessionBroker
    [] op = "probe" -> ProbeProduction

Role(r) == Contract(requests[r].op).role

----------------------------------------------------------------------------
(* A request. *)

Active == {r \in Requests : requests[r].phase \notin {"idle", "done"}}
Tracked == {c \in Connections : conns[c] \in {"idle", "busy"}}

Ended(r, outcome) ==
  requests' = [requests EXCEPT ![r].phase = "finishing", ![r].outcome = outcome]

\* What a failed or cancelled step of the request is reported as
Failure == IF closed THEN "closed" ELSE "transport"

\* The credentials of the operation, then beginActiveRequest
Begin(r, op, input) ==
  LET called == [NoRequest EXCEPT !.op = op, !.input = input]
      refused == IF Contract(op).role \notin Configured \cup {"none"} THEN "config"
                 ELSE IF closed THEN "closed" ELSE "none"
  IN  /\ requests[r].phase = "idle"
      /\ requests' = [requests EXCEPT ![r] =
           [called EXCEPT !.outcome = refused,
                          !.phase = IF refused # "none" THEN "done"
                                    ELSE IF op = "probe" THEN "sending" ELSE "waiting"]]
      /\ UNCHANGED <<closed, closeDone, keys, gate, conns, answers, closers>>

\* The timeout of the request, or its caller
Cancel(r) ==
  /\ r \in Active /\ ~requests[r].cancelled
  /\ requests' = [requests EXCEPT ![r].cancelled = TRUE]
  /\ UNCHANGED <<closed, closeDone, keys, gate, conns, answers, closers>>

TakeGate(r) ==
  /\ requests[r].phase = "waiting" /\ gate = None
  /\ gate' = r
  /\ requests' = [requests EXCEPT ![r].phase = "sourcing"]
  /\ UNCHANGED <<closed, closeDone, keys, conns, answers, closers>>

GateCancelled(r) ==
  /\ requests[r].phase = "waiting" /\ requests[r].cancelled
  /\ Ended(r, Failure)
  /\ UNCHANGED <<closed, closeDone, keys, gate, conns, answers, closers>>

NextId == 1 + Cardinality({r \in Requests : requests[r].id # 0})

\* newRequestID and the clock; the gate is given back before the outcome is looked at
Source(r, generated) ==
  /\ requests[r].phase = "sourcing"
  /\ gate' = None
  /\ IF requests[r].cancelled THEN Ended(r, Failure)
     ELSE IF ~generated THEN Ended(r, "invalid")
     ELSE requests' = [requests EXCEPT ![r].phase = "signing", ![r].id = NextId]
  /\ UNCHANGED <<closed, closeDone, keys, conns, answers, closers>>

Sign(r) ==
  /\ requests[r].phase = "signing"
  /\ requests' = [requests EXCEPT ![r].phase = "sending"]
  /\ UNCHANGED <<closed, closeDone, keys, gate, conns, answers, closers>>

----------------------------------------------------------------------------
(* The transport and its connections. *)

\* Close of a tracked connection: closed once and forgotten
ReleaseConnection(c) == [conns EXCEPT ![c] = "closed"]

StartDial(r, c) ==
  /\ requests[r].phase = "sending" /\ ~requests[r].cancelled
  /\ conns[c] = "none"
  /\ conns' = [conns EXCEPT ![c] = "dialing"]
  /\ UNCHANGED <<closed, closeDone, keys, gate, requests, answers, closers>>

\* DialContext returns: after Close the connection is closed instead of pooled
DialDone(c, connected) ==
  /\ conns[c] = "dialing"
  /\ conns' = [conns EXCEPT ![c] = IF connected /\ ~closed THEN "idle" ELSE "closed"]
  /\ UNCHANGED <<closed, closeDone, keys, gate, requests, answers, closers>>

SendOn(r, c) ==
  /\ requests[r].phase = "sending" /\ ~requests[r].cancelled
  /\ conns[c] = "idle"
  /\ conns' = [conns EXCEPT ![c] = "busy"]
  /\ requests' = [requests EXCEPT ![r].phase = "sent", ![r].conn = c]
  /\ UNCHANGED <<closed, closeDone, keys, gate, answers, closers>>

\* Do returns an error: cancelled, or the connection went away
DoFails(r) ==
  /\ \/ requests[r].phase = "sending" /\ requests[r].cancelled
     \/ /\ requests[r].phase = "sent"
        /\ requests[r].cancelled \/ conns[requests[r].conn] = "closed"
  /\ conns' = IF requests[r].phase = "sent" THEN ReleaseConnection(requests[r].conn) ELSE conns
  /\ Ended(r, Failure)
  /\ UNCHANGED <<closed, closeDone, keys, gate, answers, closers>>

\* The state app executes a request and signs its answer over the request
HostAnswer(r) ==
  /\ requests[r].phase = "sent"
  /\ answers' = answers \cup {[op |-> requests[r].op, id |-> requests[r].id,
                               input |-> requests[r].input, role |-> Role(r)]}
  /\ UNCHANGED <<closed, closeDone, keys, gate, requests, conns, closers>>

\* An answer arrives and its body is read; the connection can be used again
Receive(r, a) ==
  /\ requests[r].phase = "sent" /\ conns[requests[r].conn] = "busy"
  /\ requests' = [requests EXCEPT ![r].phase = "verifying", ![r].reply = {a}]
  /\ conns' = [conns EXCEPT ![requests[r].conn] = "idle"]
  /\ UNCHANGED <<closed, closeDone, keys, gate, answers, closers>>

\* Key, path, request identifier and request digest are what the answer is signed over
Authentic(r, a) ==
  /\ a.role = Role(r) /\ a.op = requests[r].op
  /\ a.id = requests[r].id /\ a.input = requests[r].input

\* The decoded result repeats what was asked for
ValidResult(r, a) == Contract(requests[r].op).echoes => a.input = requests[r].input

Verify(r) ==
  /\ requests[r].phase = "verifying"
  /\ \E a \in requests[r].reply :
       Ended(r, IF requests[r].op = "probe"
                THEN IF a.op # "probe" THEN "unauthenticated"
                     ELSE IF requests[r].cancelled THEN "transport" ELSE "result"
                ELSE IF ~Authentic(r, a) THEN "unauthenticated"
                ELSE IF ValidResult(r, a) THEN "result" ELSE "invalid")
  /\ UNCHANGED <<closed, closeDone, keys, gate, conns, answers, closers>>

\* The deferred finish: active.Done
Finish(r) ==
  /\ requests[r].phase = "finishing"
  /\ requests' = [requests EXCEPT ![r].phase = "done"]
  /\ UNCHANGED <<closed, closeDone, keys, gate, conns, answers, closers>>

----------------------------------------------------------------------------
(* Close. *)

\* The first caller takes the requests and connections of that moment with it
CloseStart(k) ==
  /\ closers[k].phase = "idle"
  /\ closed' = TRUE
  /\ closers' = [closers EXCEPT ![k] =
       IF closed THEN [@ EXCEPT !.phase = "blocked"]
       ELSE [phase |-> "cancelling", cancels |-> Active, conns |-> Tracked]]
  /\ UNCHANGED <<closeDone, keys, gate, requests, conns, answers>>

CloseCancels(k) ==
  /\ closers[k].phase = "cancelling"
  /\ \/ \E r \in closers[k].cancels :
          /\ requests' = [requests EXCEPT ![r].cancelled = r \in Active]
          /\ closers' = [closers EXCEPT ![k].cancels = @ \ {r}]
          /\ UNCHANGED conns
     \/ \E c \in closers[k].conns :
          /\ closers[k].cancels = {}
          /\ conns' = ReleaseConnection(c)
          /\ closers' = [closers EXCEPT ![k].conns = @ \ {c}]
          /\ UNCHANGED requests
     \/ /\ closers[k].cancels = {} /\ closers[k].conns = {}
        /\ closers' = [closers EXCEPT ![k].phase = "draining"]
        /\ UNCHANGED <<requests, conns>>
  /\ UNCHANGED <<closed, closeDone, keys, gate, answers>>

\* Variant of Drained: Close does not wait for the requests it cancelled.
DrainedAtOnce == TRUE

\* active.Wait
Drained == Active = {}

CloseEnds(k) ==
  /\ closers[k].phase = "draining" /\ Drained
  /\ keys' = FALSE /\ closeDone' = TRUE
  /\ closers' = [closers EXCEPT ![k].phase = "returned"]
  /\ UNCHANGED <<closed, gate, requests, conns, answers>>

CloseUnblocks(k) ==
  /\ closers[k].phase = "blocked" /\ closeDone
  /\ closers' = [closers EXCEPT ![k].phase = "returned"]
  /\ UNCHANGED <<closed, closeDone, keys, gate, requests, conns, answers>>

----------------------------------------------------------------------------
RequestStep(r) ==
  \/ TakeGate(r) \/ GateCancelled(r) \/ Source(r, TRUE) \/ Sign(r)
  \/ DoFails(r) \/ HostAnswer(r) \/ Verify(r) \/ Finish(r)
  \/ \E c \in Connections : SendOn(r, c)
  \/ \E a \in answers : Receive(r, a)

CloseStep(k) == CloseCancels(k) \/ CloseEnds(k) \/ CloseUnblocks(k)

Next ==
  \/ \E r \in Requests :
       \/ \E op \in Operations, input \in Inputs : Begin(r, op, input)
       \/ Cancel(r) \/ Source(r, FALSE) \/ RequestStep(r)
       \/ \E c \in Connections : StartDial(r, c)
  \/ \E c \in Connections : DialDone(c, TRUE) \/ DialDone(c, FALSE)
  \/ \E k \in Closers : CloseStart(k) \/ CloseStep(k)

Spec == Init /\ [][Next]_vars

----------------------------------------------------------------------------
(* Correctness. *)

\* The keys are cleared only when no request can still sign with them or check an
\* answer by them, however its cancellation, its timeout and Close interleave.
KeysOutliveRequests == ~keys => Active = {}

\* When Close has returned no connection is open and none will be: also one whose dial
\* was under way when Close looked at the pool.
NothingLeftOpen == closeDone => Tracked = {}

\* A result is the answer to the very request, under the role of its operation, however
\* answers are delayed and delivered to other requests.
AnswerIsMine ==
  \A r \in Requests : requests[r].outcome = "result" /\ requests[r].op # "probe" =>
    requests[r].reply = {[op |-> requests[r].op, id |-> requests[r].id,
                          input |-> requests[r].input, role |-> Role(r)]}

\* Every caller of Close returns.
CloseReturns == \A k \in Closers : closers[k].phase # "idle" ~> closers[k].phase = "returned"
====
