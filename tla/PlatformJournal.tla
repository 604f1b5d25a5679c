--------------------------- MODULE PlatformJournal ---------------------------
(***************************************************************************)
(* The session journal of internal/platformapi: turns created under an     *)
(* idempotency key, durable events appended under a fence, and streams     *)
(* that replay the journal and follow it.                                  *)
(*                                                                         *)
(* The state and what Service does around its repository come first, then  *)
(* the two repositories.  A service call asks the authorizer first and     *)
(* calls the repository later; between the two anything may happen.        *)
(***************************************************************************)
EXTENDS Integers, FiniteSets, Sequences

CONSTANTS
  Turns, Keys, Digests,  \* turn identifiers, idempotency keys, request digests
  Operations,            \* command identifiers of appends
  Callers,               \* callers of CreateTurn
  Readers,               \* callers of OpenEventStream
  MaxReplay,             \* events of one page
  QueueSize,             \* buffered events of a subscription (64)
  MaxGeneration,         \* bound on authorization rotations
  MaxEphemeral,          \* bound on ephemeral events
  MaxFailures,           \* bound on executions whose outcome is lost
  None

JournalBounds == MaxReplay >= 1 /\ QueueSize >= 1 /\ MaxGeneration >= 1 /\ {MaxEphemeral, MaxFailures} \subseteq Nat

VARIABLES
  session,    \* the record of the session
  calls,      \* the calls of CreateTurn
  readers,    \* the streams
  answers,    \* what callers were told: [key, digest, turn]
  ephemeral,  \* counts the ephemeral events
  failures    \* counts the lost outcomes

vars == <<session, calls, readers, answers, ephemeral, failures>>

NoCall == [phase |-> "idle", key |-> None, digest |-> None, turn |-> None, generation |-> 0]

NoStream == [phase |-> "idle", generation |-> 0, seen |-> 0, queue |-> << >>, open |-> FALSE]

Registered ==
  [generation |-> 1, turns |-> [t \in Turns |-> "none"], creations |-> [k \in Keys |-> None],
   events |-> << >>, active |-> None, status |-> "none"]

Init ==
  /\ session = Registered
  /\ calls = [c \in Callers |-> NoCall]
  /\ readers = [r \in Readers |-> NoStream]
  /\ answers = {} /\ ephemeral = 0 /\ failures = 0

Known == {t \in Turns : session.turns[t] # "none"}
LastSequence == Len(session.events)

----------------------------------------------------------------------------
(* The rules of the journal. *)

EventTypes == {"accepted", "progress", "needs_confirmation", "completed", "failed", "aborted"}
Terminal == {"completed", "failed", "aborted"}

\* The status an event stands for
validateStatusForEvent(type) ==
  IF type \in Terminal \cup {"needs_confirmation"} THEN type ELSE "active"

validateTurnTransition(current, type) ==
  \/ current = "queued" /\ type = "accepted"
  \/ current = "active"
  \/ current = "needs_confirmation" /\ type # "needs_confirmation"

\* The journal with one more event; the turn and the snapshot follow it
Appended(turn, type, command) ==
  [session EXCEPT
     !.turns[turn] = validateStatusForEvent(type),
     !.events = Append(@, [sequence |-> LastSequence + 1, turn |-> turn, type |-> type,
                           command |-> command, generation |-> session.generation]),
     !.active = turn, !.status = validateStatusForEvent(type)]

\* A turn is created queued; it is the session's active turn only if there was none
Created(key, digest, turn) ==
  [session EXCEPT
     !.turns[turn] = "queued",
     !.creations[key] = [digest |-> digest, turn |-> turn],
     !.active = IF @ = None THEN turn ELSE @,
     !.status = IF session.active = None THEN "queued" ELSE @]

\* Variant of SameRequest: the key alone decides.
SameRequestAny(receipt, digest) == TRUE

\* A key is bound to the digest of the request it first came with
SameRequest(receipt, digest) == receipt.digest = digest

\* The event a command identifier was executed as
ReceiptOf(command) == {i \in 1..LastSequence : session.events[i].command = command}

Unexecuted(command) == ReceiptOf(command) = {}

----------------------------------------------------------------------------
(* The service around CreateTurn. *)

BeginCreate(c, key, digest, turn) ==
  /\ calls[c].phase = "idle"
  /\ calls' = [calls EXCEPT ![c] = [phase |-> "authorized", key |-> key, digest |-> digest,
                                    turn |-> turn, generation |-> session.generation]]
  /\ UNCHANGED <<session, readers, answers, ephemeral, failures>>

\* The service takes a stored turn only if it is queued
validateStoredTurn(status) == status = "queued"

EndCreate(c, turn, status) ==
  /\ answers' = answers \cup {[key |-> calls[c].key, digest |-> calls[c].digest,
                               turn |-> IF validateStoredTurn(status) THEN turn ELSE None]}
  /\ calls' = [calls EXCEPT ![c] = NoCall]

RefuseCreate(c) ==
  /\ calls' = [calls EXCEPT ![c] = NoCall]
  /\ UNCHANGED <<session, answers>>

----------------------------------------------------------------------------
(* The service around OpenEventStream, and the reader. *)

authorizeReplay(r) ==
  /\ readers[r].phase = "idle"
  /\ readers' = [readers EXCEPT ![r].phase = "authorized", ![r].generation = session.generation]
  /\ UNCHANGED <<session, calls, answers, ephemeral, failures>>

validateReplay(after, page) ==
  /\ Len(page) <= MaxReplay /\ after <= LastSequence
  /\ \A i \in 1..Len(page) : page[i].sequence = after + i /\ page[i].sequence <= LastSequence

\* The page is given to the reader; only a stream that caught up is subscribed
Opened(r, page, subscribed) ==
  LET after == readers[r].seen
      last == IF page = << >> THEN after ELSE page[Len(page)].sequence
      valid == validateReplay(after, page) /\ (subscribed <=> last = LastSequence)
  IN  readers' = [readers EXCEPT ![r] =
        [NoStream EXCEPT !.seen = IF valid THEN last ELSE after,
                         !.phase = IF valid /\ subscribed THEN "streaming" ELSE "idle",
                         !.generation = readers[r].generation,
                         !.open = valid /\ subscribed]]

RefuseStream(r) ==
  readers' = [readers EXCEPT ![r] = [NoStream EXCEPT !.seen = readers[r].seen]]

Live(r) == readers[r].phase = "streaming" /\ readers[r].open

\* Variant of Published: an event that does not fit is dropped, durable or not.
PublishedDrops(event, durable) ==
  [r \in Readers |->
     IF Live(r) /\ Len(readers[r].queue) < QueueSize
     THEN [readers[r] EXCEPT !.queue = Append(@, event)]
     ELSE readers[r]]

\* The event goes to every subscriber's queue; a durable one that does not fit ends the stream
Published(event, durable) ==
  [r \in Readers |->
     IF ~Live(r) THEN readers[r]
     ELSE IF Len(readers[r].queue) < QueueSize
          THEN [readers[r] EXCEPT !.queue = Append(@, event)]
          ELSE [readers[r] EXCEPT !.open = ~durable]]

\* Every subscription is closed; what is buffered can still be received
Disconnected == [r \in Readers |-> [readers[r] EXCEPT !.open = FALSE]]

\* Sequence 0 marks an ephemeral event
EphemeralEvent == [sequence |-> 0, turn |-> None, type |-> "delta", command |-> None,
                   generation |-> session.generation]

Receive(r) ==
  /\ readers[r].queue # << >>
  /\ readers' = [readers EXCEPT ![r].queue = Tail(@),
                                ![r].seen = IF Head(readers[r].queue).sequence = 0 THEN @
                                            ELSE Head(readers[r].queue).sequence]
  /\ UNCHANGED <<session, calls, answers, ephemeral, failures>>

\* A closed channel that is drained, or a client that leaves
EndStream(r) ==
  /\ readers[r].phase = "streaming"
  /\ ~readers[r].open /\ readers[r].queue = << >>
  /\ RefuseStream(r)
  /\ UNCHANGED <<session, calls, answers, ephemeral, failures>>

CloseStream(r) ==
  /\ Live(r)
  /\ RefuseStream(r)
  /\ UNCHANGED <<session, calls, answers, ephemeral, failures>>

----------------------------------------------------------------------------
(* The journal over platformapi.MemoryStore, whose mutex is the            *)
(* transaction boundary.                                                   *)

\* The permit is of the session's present generation
authorizedForSession(generation) == generation = session.generation

authorizedSession(generation, turn) == generation = session.generation /\ turn \in Known

\* The receipt holds the turn as it was created
MemoryStoredStatus(turn) == "queued"

MemoryCreateTurn(c) ==
  LET call == calls[c]
      receipt == session.creations[call.key]
  IN  /\ call.phase = "authorized"
      /\ \/ /\ authorizedForSession(call.generation)
            /\ receipt # None
            /\ SameRequest(receipt, call.digest)
            /\ EndCreate(c, receipt.turn, MemoryStoredStatus(receipt.turn))
            /\ UNCHANGED session
         \/ /\ authorizedForSession(call.generation)
            /\ receipt = None /\ call.turn \notin Known
            /\ session' = Created(call.key, call.digest, call.turn)
            /\ EndCreate(c, call.turn, "queued")
         \/ /\ \/ ~authorizedForSession(call.generation)
               \/ receipt # None /\ ~SameRequest(receipt, call.digest)
               \/ receipt = None /\ call.turn \in Known
            /\ RefuseCreate(c)
      /\ UNCHANGED <<readers, ephemeral, failures>>

\* A refusal and a repeated command change nothing
MemoryAppendDurableEvent(generation, turn, type, operation, expected) ==
  /\ authorizedSession(generation, turn)
  /\ Unexecuted(operation)
  /\ expected = LastSequence
  /\ validateTurnTransition(session.turns[turn], type)
  /\ session' = Appended(turn, type, operation)
  /\ readers' = Published(session'.events[LastSequence + 1], TRUE)
  /\ UNCHANGED <<calls, answers, ephemeral, failures>>

MemoryPublishEphemeralEvent(generation, turn) ==
  /\ ephemeral < MaxEphemeral /\ authorizedSession(generation, turn)
  /\ readers' = Published(EphemeralEvent, FALSE)
  /\ ephemeral' = ephemeral + 1
  /\ UNCHANGED <<session, calls, answers, failures>>

replayLocked(after) ==
  SubSeq(session.events, after + 1,
         IF after + MaxReplay > LastSequence THEN LastSequence ELSE after + MaxReplay)

CaughtUp(after) == after + Len(replayLocked(after)) = LastSequence

MemoryOpenEventStream(r) ==
  /\ readers[r].phase = "authorized"
  /\ IF authorizedForSession(readers[r].generation)
     THEN Opened(r, replayLocked(readers[r].seen), CaughtUp(readers[r].seen))
     ELSE RefuseStream(r)
  /\ UNCHANGED <<session, calls, answers, ephemeral, failures>>

RotateAuthorizationGeneration ==
  /\ session.generation < MaxGeneration
  /\ session' = [session EXCEPT !.generation = @ + 1]
  /\ readers' = Disconnected
  /\ UNCHANGED <<calls, answers, ephemeral, failures>>

MemoryNext ==
  \/ \E c \in Callers :
       \/ \E k \in Keys, d \in Digests, t \in Turns : BeginCreate(c, k, d, t)
       \/ MemoryCreateTurn(c)
  \/ \E g \in 1..session.generation, t \in Turns :
       \/ \E type \in EventTypes, o \in Operations, n \in 0..LastSequence :
            MemoryAppendDurableEvent(g, t, type, o, n)
       \/ MemoryPublishEphemeralEvent(g, t)
  \/ RotateAuthorizationGeneration
  \/ \E r \in Readers : \/ authorizeReplay(r) \/ MemoryOpenEventStream(r)
                        \/ Receive(r) \/ EndStream(r) \/ CloseStream(r)

----------------------------------------------------------------------------
(* The journal over celldrepo.Repository: commands of a celld object       *)
(* (module CelldBridge models the host), committed state read back, and    *)
(* subscribers under the repository's own lock.  An append can fail after  *)
(* its commit; the repository then disconnects every reader.               *)

\* What is refused before any state is read
validateCommandShape(type, expected) == type \in EventTypes /\ expected >= 0

\* Committed state is read back only if its events are numbered without gap
decodeEvents == \A i \in DOMAIN session.events : session.events[i].sequence = i
decodeState == decodeEvents /\ session.generation >= 0

\* The current authority is required before a receipt is looked up
authorizeCommand(generation) == generation = session.generation

\* The response of a repeated creation reports the turn as it is now
CelldStoredStatus(turn) == session.turns[turn]

\* The host executed the command and answered, or its outcome is unknown here
Lost(c) ==
  /\ failures < MaxFailures /\ failures' = failures + 1
  /\ calls' = [calls EXCEPT ![c] = NoCall]
  /\ UNCHANGED answers

applyCreateTurn(c) ==
  LET call == calls[c]
      receipt == session.creations[call.key]
  IN  \/ /\ receipt # None /\ SameRequest(receipt, call.digest)
         /\ UNCHANGED session
         /\ \/ EndCreate(c, receipt.turn, CelldStoredStatus(receipt.turn)) /\ UNCHANGED failures
            \/ Lost(c)
      \/ /\ receipt = None /\ call.turn \notin Known
         /\ session' = Created(call.key, call.digest, call.turn)
         /\ \/ EndCreate(c, call.turn, "queued") /\ UNCHANGED failures
            \/ Lost(c)
      \/ /\ \/ receipt # None /\ ~SameRequest(receipt, call.digest)
            \/ receipt = None /\ call.turn \in Known
         /\ RefuseCreate(c) /\ UNCHANGED failures

CelldCreateTurn(c) ==
  /\ calls[c].phase = "authorized"
  /\ \/ authorizeCommand(calls[c].generation) /\ applyCreateTurn(c)
     \/ ~authorizeCommand(calls[c].generation) /\ RefuseCreate(c) /\ UNCHANGED failures
  /\ UNCHANGED <<readers, ephemeral>>

applyAppendEvent(turn, type, expected) ==
  /\ expected = LastSequence
  /\ turn \in Known
  /\ validateTurnTransition(session.turns[turn], type)

\* An append that returned no result may have committed: no reader stays behind it
AppendLost == readers' = Disconnected

CelldAppendDurableEvent(turn, type, operation, expected) ==
  /\ validateCommandShape(type, expected) /\ decodeState
  /\ \/ /\ Unexecuted(operation) /\ applyAppendEvent(turn, type, expected)
        /\ session' = Appended(turn, type, operation)
        /\ \/ /\ readers' = Published(session'.events[LastSequence + 1], TRUE)
              /\ UNCHANGED failures
           \/ failures < MaxFailures /\ failures' = failures + 1 /\ AppendLost
     \/ /\ Unexecuted(operation) /\ ~applyAppendEvent(turn, type, expected)
        /\ AppendLost
        /\ UNCHANGED <<session, failures>>
  /\ UNCHANGED <<calls, answers, ephemeral>>

\* A receipt is replayed without publication; another command under its name is refused
ReplayAppend(operation, same) ==
  /\ ~Unexecuted(operation)
  /\ IF same THEN UNCHANGED readers ELSE AppendLost
  /\ UNCHANGED <<session, calls, answers, ephemeral, failures>>

CelldPublishEphemeralEvent(turn) ==
  /\ ephemeral < MaxEphemeral /\ turn \in Known
  /\ readers' = Published(EphemeralEvent, FALSE)
  /\ ephemeral' = ephemeral + 1
  /\ UNCHANGED <<session, calls, answers, failures>>

authorizeRead(generation) == generation = session.generation

project(after) ==
  LET n == LastSequence - after
  IN  [i \in 1..(IF n > MaxReplay THEN MaxReplay ELSE n) |-> session.events[after + i]]

subscribeLocked(after) == after + Len(project(after)) = LastSequence

CelldOpenEventStream(r) ==
  /\ readers[r].phase = "authorized"
  /\ IF decodeState /\ authorizeRead(readers[r].generation)
     THEN Opened(r, project(readers[r].seen), subscribeLocked(readers[r].seen))
     ELSE RefuseStream(r)
  /\ UNCHANGED <<session, calls, answers, ephemeral, failures>>

CelldNext ==
  \/ \E c \in Callers :
       \/ \E k \in Keys, d \in Digests, t \in Turns :
            BeginCreate(c, k, d, t)
       \/ CelldCreateTurn(c)
  \/ \E t \in Turns, type \in EventTypes, o \in Operations, n \in 0..LastSequence :
       CelldAppendDurableEvent(t, type, o, n)
  \/ \E o \in Operations, same \in BOOLEAN : ReplayAppend(o, same)
  \/ \E t \in Turns : CelldPublishEphemeralEvent(t)
  \/ \E r \in Readers :
       \/ CelldOpenEventStream(r)
       \/ authorizeReplay(r) \/ Receive(r) \/ EndStream(r) \/ CloseStream(r)

----------------------------------------------------------------------------
(* Correctness. *)

\* The promise of EventStream
Stream == INSTANCE SessionStream WITH
  head <- LastSequence,
  seen <- [r \in Readers |-> readers[r].seen],
  attached <- {r \in Readers : readers[r].phase = "streaming"}

\* Whatever is buffered, dropped, closed or replayed, a reader is given the durable
\* events in order, without gap or repetition, and is subscribed only at the head.
StreamImplemented == Stream!Spec

\* Callers who presented the same key and the same request were told the same turn, and
\* a key names one request.
OneTurnPerKey ==
  \A a, b \in answers :
    a.key = b.key /\ a.turn # None /\ b.turn # None => a.digest = b.digest /\ a.turn = b.turn

\* A request that is repeated under its key is answered with its turn, whatever became of
\* the turn in the meantime.
RetryAnswered == \A a \in answers : a.turn # None

\* The journal alone tells the state of every turn and of the snapshot: a turn begins
\* by being accepted, has the status of its last event, and has no event after its end.
JournalExplainsTurns ==
  /\ \A t \in Turns :
       LET own == SelectSeq(session.events, LAMBDA e : e.turn = t)
       IN  /\ own # << >> => /\ own[1].type = "accepted"
                             /\ session.turns[t] = validateStatusForEvent(own[Len(own)].type)
           /\ \A i \in 1..Len(own) - 1 : own[i].type \notin Terminal
  /\ LastSequence # 0 => /\ session.active = session.events[LastSequence].turn
                 /\ session.status = session.turns[session.active]

\* However often an append is repeated after a lost answer, it is in the journal once.
AppendedOnce == \A o \in Operations : Cardinality(ReceiptOf(o)) <= 1

\* A reader whose authority was revoked is not given what was published under the next.
NothingAfterRevocation ==
  \A r \in Readers : \A i \in DOMAIN readers[r].queue :
    readers[r].queue[i].generation <= readers[r].generation
====
