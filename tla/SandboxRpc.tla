----------------------------- MODULE SandboxRpc -----------------------------
(***************************************************************************)
(* The private transport between the executor and the supervisor of one    *)
(* sandbox: the one-time handshake the goroutines of a client share, the   *)
(* server's idempotency ledger, and the sequenced chunks of standard       *)
(* input.  Requests and answers can be lost, callers can give up and call  *)
(* again under the same or another key, and client and server can close.   *)
(*                                                                         *)
(* call[n] is one call of a client method, handler[n] the server goroutine *)
(* that serves it and that goes on when the caller has given up.           *)
(***************************************************************************)
EXTENDS Integers, Sequences, FiniteSets

CONSTANTS
    Clients,        \* clients constructed with the launch nonce
    Ops,            \* requests: [method, key, body, chunk]
    Calls,          \* calls that may be made: 1 .. n
    MaximumIdempotencyKeys,
    MaxLosses,      \* bound on calls whose caller gives up
    MayClose        \* clients and server that may be closed

VARIABLES
    client,     \* per client: the state of its handshake
    server,     \* nonceUsed, the session's client, closed
    call,       \* per call: client, op, where it is, answer
    handler,    \* per call: where the server is, and whether its context ended
    ledger,     \* operations: the recorded outcome of each method and key
    binding,    \* the process binding: spawned, gate, accepted chunk
    effects,    \* what reached the supervisor, in order
    losses

vars == <<client, server, call, handler, ledger, binding, effects, losses>>

Keys == {<<o.method, o.key>> : o \in Ops}
KeyOf(n) == <<call[n].op.method, call[n].op.key>>
NoOp == [method |-> "none", key |-> "", body |-> 0, chunk |-> 0]
NoEntry == [state |-> "absent", body |-> 0, by |-> 0, answer |-> ""]

Init ==
    /\ client = [c \in Clients |-> [closed |-> FALSE, attempted |-> FALSE, inflight |-> 0,
                                    session |-> FALSE]]
    /\ server = [nonceUsed |-> FALSE, sessions |-> << >>, closed |-> FALSE]
    /\ call = [n \in Calls |-> [client |-> CHOOSE c \in Clients : TRUE, op |-> NoOp,
                                pc |-> "idle", answer |-> ""]]
    /\ handler = [n \in Calls |-> [pc |-> "none", canceled |-> FALSE]]
    /\ ledger = [k \in Keys |-> NoEntry]
    /\ binding = [spawned |-> FALSE, gate |-> 0, accepted |-> 0, body |-> 0, closed |-> FALSE]
    /\ effects = << >>
    /\ losses = 0

-----------------------------------------------------------------------------
(* The client: prepareRequest and ensureHandshake.                         *)

\* The client knows a process only from an answer to Spawn.
Known == \E m \in Calls : call[m].op.method = "spawn" /\ call[m].answer = "ok"

Begin(n) ==
    /\ call[n].pc = "idle"
    /\ \A m \in Calls : m < n => call[m].pc # "idle"
    /\ \E c \in Clients, o \in Ops :
         /\ o.method = "spawn" \/ Known
         /\ call' = [call EXCEPT ![n] = [client |-> c, op |-> o, pc |-> "hello", answer |-> ""]]
    /\ UNCHANGED <<client, server, handler, ledger, binding, effects, losses>>

Ends(n, answer) == call' = [call EXCEPT ![n].pc = "done", ![n].answer = answer]

\* Nobody has begun the handshake of this client.
FirstAttempt(c) == ~client[c].session /\ client[c].inflight = 0 /\ ~client[c].attempted

HandshakeBegins(n) ==
    LET c == call[n].client IN
    /\ call[n].pc = "hello"
    /\ ~client[c].closed
    /\ FirstAttempt(c)
    /\ client' = [client EXCEPT ![c].attempted = TRUE, ![c].inflight = n]
    /\ call' = [call EXCEPT ![n].pc = "shaking"]
    /\ UNCHANGED <<server, handler, ledger, binding, effects, losses>>

\* The session is there, or it never will be.
HandshakeKnown(n) ==
    LET c == call[n].client IN
    /\ call[n].pc = "hello"
    /\ \/ client[c].closed /\ Ends(n, "closed")
       \/ /\ ~client[c].closed /\ client[c].session
          /\ call' = [call EXCEPT ![n].pc = "sent"]
       \/ /\ ~client[c].closed /\ ~client[c].session /\ client[c].inflight = 0
          /\ ~FirstAttempt(c)
          /\ Ends(n, "unauthenticated")
    /\ UNCHANGED <<client, server, handler, ledger, binding, effects, losses>>

NonceTaken == TRUE

\* The server's Handshake: the nonce is compared, proved and spent in one step.
Handshake(n) ==
    /\ call[n].pc = "shaking"
    /\ ~server.closed
    /\ IF server.nonceUsed
         THEN call' = [call EXCEPT ![n].pc = "refused"] /\ UNCHANGED server
         ELSE /\ server' = [server EXCEPT !.nonceUsed = NonceTaken,
                                          !.sessions = Append(@, call[n].client)]
              /\ call' = [call EXCEPT ![n].pc = "shaken"]
    /\ UNCHANGED <<client, handler, ledger, binding, effects, losses>>

\* handshakeInFlight is closed whatever came of the handshake.
Released(c, ok) == 0

HandshakeEnds(n, ok) ==
    LET c == call[n].client IN
    /\ client' = [client EXCEPT ![c].session = ok /\ ~client[c].closed,
                                ![c].inflight = Released(c, ok)]
    /\ IF ok /\ ~client[c].closed
         THEN call' = [call EXCEPT ![n].pc = "sent"]
         ELSE Ends(n, "unauthenticated")

HandshakeAnswered(n) ==
    /\ call[n].pc \in {"refused", "shaken"}
    /\ HandshakeEnds(n, call[n].pc = "shaken")
    /\ UNCHANGED <<server, handler, ledger, binding, effects, losses>>

\* The connection or the caller's context ends, before or after the server.
HandshakeLost(n) ==
    /\ call[n].pc \in {"shaking", "shaken"}
    /\ losses < MaxLosses \/ server.closed
    /\ losses' = IF server.closed THEN losses ELSE losses + 1
    /\ HandshakeEnds(n, FALSE)
    /\ UNCHANGED <<server, handler, ledger, binding, effects>>

\* A caller whose request is out, or that waits for another's handshake,
\* gives up; its handler learns of it.
GiveUp(n) ==
    /\ \/ call[n].pc = "sent"
       \/ call[n].pc = "hello" /\ client[call[n].client].inflight # 0
    /\ losses < MaxLosses \/ server.closed
    /\ losses' = IF server.closed THEN losses ELSE losses + 1
    /\ Ends(n, "lost")
    /\ handler' = [handler EXCEPT ![n].canceled = TRUE,
                                  ![n].pc = IF @ = "none" THEN "unreached" ELSE @]
    /\ UNCHANGED <<client, server, ledger, binding, effects>>

CloseClient(c) ==
    /\ c \in MayClose
    /\ ~client[c].closed
    /\ client' = [client EXCEPT ![c].closed = TRUE, ![c].session = FALSE]
    /\ UNCHANGED <<server, call, handler, ledger, binding, effects, losses>>

CloseServer ==
    /\ "server" \in MayClose
    /\ ~server.closed
    /\ server' = [server EXCEPT !.closed = TRUE]
    /\ UNCHANGED <<client, call, handler, ledger, binding, effects, losses>>

-----------------------------------------------------------------------------
(* The server: authorize and runOnce.                                      *)

\* The answer goes to the caller if it still waits for it.
Respond(n, answer) ==
    /\ handler' = [handler EXCEPT ![n].pc = "done"]
    /\ call' = IF call[n].pc = "sent"
               THEN [call EXCEPT ![n].pc = "done", ![n].answer = answer] ELSE call

LedgerSize == Cardinality({k \in Keys : ledger[k].state # "absent"})

\* A request reaches the server; the key's entry decides what it does.
Arrive(n) ==
    /\ call[n].pc = "sent"
    /\ handler[n].pc = "none"
    /\ ~server.closed
    /\ LET e == ledger[KeyOf(n)] IN
       \/ /\ e.state # "absent" /\ e.body # call[n].op.body
          /\ Respond(n, "conflict")
          /\ UNCHANGED ledger
       \/ /\ e.state # "absent" /\ e.body = call[n].op.body
          /\ handler' = [handler EXCEPT ![n].pc = "joined"]
          /\ UNCHANGED <<call, ledger>>
       \/ /\ e.state = "absent" /\ LedgerSize >= MaximumIdempotencyKeys
          /\ Respond(n, "exhausted")
          /\ UNCHANGED ledger
       \/ /\ e.state = "absent" /\ LedgerSize < MaximumIdempotencyKeys
          /\ ledger' = [ledger EXCEPT ![KeyOf(n)] =
                          [state |-> "running", body |-> call[n].op.body, by |-> n, answer |-> ""]]
          /\ handler' = [handler EXCEPT ![n].pc = "run"]
          /\ UNCHANGED call
    /\ UNCHANGED <<client, server, binding, effects, losses>>

\* A duplicate waits for the recorded outcome, or for its own context.
Joined(n) ==
    /\ handler[n].pc = "joined"
    /\ \/ ledger[KeyOf(n)].state = "ended" /\ Respond(n, ledger[KeyOf(n)].answer)
       \/ handler[n].canceled /\ Respond(n, "canceled")
    /\ UNCHANGED <<client, server, ledger, binding, effects, losses>>

\* The outcome is kept, an error like a response.
Outcome(n, answer) == [ledger EXCEPT ![KeyOf(n)].state = "ended", ![KeyOf(n)].answer = answer]

Finish(n, answer) == ledger' = Outcome(n, answer) /\ Respond(n, answer)

-----------------------------------------------------------------------------
(* The operations.                                                         *)

Effect(n, what) == effects' = Append(effects, [op |-> call[n].op, what |-> what])

\* Spawn starts a process and binds it, or fails without one.
Spawn(n) ==
    /\ handler[n].pc = "run" /\ call[n].op.method = "spawn"
    /\ \/ /\ ~handler[n].canceled
          /\ Effect(n, "spawned")
          /\ binding' = [binding EXCEPT !.spawned = TRUE]
          /\ Finish(n, "ok")
       \/ /\ handler[n].canceled
          /\ Finish(n, "canceled")
          /\ UNCHANGED <<binding, effects>>
    /\ UNCHANGED <<client, server, losses>>

\* CloseStdin, Signal, Cancel and Wait make one call of the supervisor.  A
\* signal is sent, and its caller may still be told that its context ended.
Control(n) ==
    /\ handler[n].pc = "run" /\ call[n].op.method = "signal"
    /\ \/ handler[n].canceled /\ Finish(n, "canceled") /\ UNCHANGED effects
       \/ Effect(n, "signaled") /\ (Finish(n, "ok") \/ Finish(n, "failed"))
    /\ UNCHANGED <<client, server, binding, losses>>

\* WriteStdin takes the binding's gate.
TakeGate(n) ==
    /\ handler[n].pc = "run" /\ call[n].op.method = "write"
    /\ \/ /\ binding.gate = 0 /\ ~handler[n].canceled
          /\ binding' = [binding EXCEPT !.gate = n]
          /\ handler' = [handler EXCEPT ![n].pc = "gated"]
          /\ UNCHANGED <<call, ledger>>
       \/ /\ handler[n].canceled
          /\ Finish(n, "canceled")
          /\ UNCHANGED binding
    /\ UNCHANGED <<client, server, effects, losses>>

Ungated == [binding EXCEPT !.gate = 0]

\* The chunk that was accepted last is answered, not written, again.
RepeatAnswer(o) == IF o.body = binding.body THEN "ok" ELSE "conflict"

\* A write that fails after a prefix closes standard input.
WriteFails(n) ==
    /\ Effect(n, "part")
    /\ binding' = [Ungated EXCEPT !.closed = TRUE]
    /\ Finish(n, "failed")

WriteStdin(n) ==
    /\ handler[n].pc = "gated"
    /\ LET o == call[n].op
           next == binding.accepted + 1 IN
       \/ /\ \/ handler[n].canceled /\ Finish(n, "canceled")
             \/ o.chunk = binding.accepted /\ Finish(n, RepeatAnswer(o))
             \/ o.chunk \notin {binding.accepted, next} /\ Finish(n, "gap")
             \/ o.chunk = next /\ binding.closed /\ Finish(n, "closed")
          /\ binding' = Ungated
          /\ UNCHANGED effects
       \/ /\ o.chunk = next /\ ~binding.closed
          /\ Effect(n, "whole")
          /\ binding' = [Ungated EXCEPT !.accepted = o.chunk, !.body = o.body]
          /\ Finish(n, "ok")
       \/ o.chunk = next /\ ~binding.closed /\ WriteFails(n)
    /\ UNCHANGED <<client, server, losses>>

-----------------------------------------------------------------------------
HandlerStep(n) == Joined(n) \/ Spawn(n) \/ Control(n) \/ TakeGate(n) \/ WriteStdin(n)
ClientStep(n) == HandshakeBegins(n) \/ HandshakeKnown(n) \/ HandshakeAnswered(n)

Next ==
    \/ \E n \in Calls :
         \/ Begin(n) \/ ClientStep(n) \/ Handshake(n) \/ HandshakeLost(n) \/ GiveUp(n)
         \/ Arrive(n) \/ HandlerStep(n)
    \/ \E c \in Clients : CloseClient(c)
    \/ CloseServer

Spec == Init /\ [][Next]_vars

-----------------------------------------------------------------------------
(* Properties.                                                             *)

\* "ensureHandshake" is one-time: the launch nonce makes one session, however
\* many goroutines and clients want one, and a client that holds a session
\* holds that one.
OneSession ==
    /\ Len(server.sessions) <= 1
    /\ \A c \in Clients : client[c].session => server.sessions = <<c>>

\* A session that was lost is not asked for again.
NoSecondHandshake ==
    \A c \in Clients : client[c].attempted => client'[c].inflight \in {0, client[c].inflight}

\* An operation takes effect at most once under its key, although its caller
\* gave up, its answer was lost, or it was repeated.
EffectOnce ==
    \A i, j \in 1 .. Len(effects) :
        effects[i].op.method = effects[j].op.method /\ effects[i].op.key = effects[j].op.key => i = j

\* Standard input receives chunk 1, 2, 3, ... each once and whole, also when a
\* chunk is sent again under another key; a partial chunk is the last thing it
\* ever receives.
StdinInOrder ==
    LET written == SelectSeq(effects, LAMBDA e : e.op.method = "write") IN
    \A k \in 1 .. Len(written) :
        /\ written[k].op.chunk = k
        /\ written[k].what = "part" => k = Len(written)

\* A write whose caller was told "ok" is in standard input.
OkIsWritten ==
    \A n \in Calls : call[n].op.method = "write" /\ call[n].answer = "ok" =>
        \E k \in 1 .. Len(effects) :
            effects[k].op.chunk = call[n].op.chunk /\ effects[k].op.body = call[n].op.body
=============================================================================
