---------------------------- MODULE EventPages ----------------------------
(***************************************************************************)
(* The public event stream of a session, end to end: the journal the       *)
(* Session object writes (module Session), the page it cuts from it at a   *)
(* cursor (replaySessionPublicEvents), the decoder of that page in         *)
(* platformd (stateappadapter/reader.go), the validator every page must    *)
(* pass before a byte of it is sent (publicsession/state_events.go) and    *)
(* the SSE client, which resumes from the last event it was sent.          *)
(*                                                                         *)
(* A page is refused as a whole, and a client can only ask again from the  *)
(* same cursor: a legal page the validator refuses ends the stream of its  *)
(* session for good.                                                       *)
(***************************************************************************)
EXTENDS Session, SequencesExt

CONSTANTS
  MaximumPageEvents, \* page size the service is configured with
  FailedTools        \* tool effects whose provider ended in an error: their
                     \* external commit carries no result reference

PageBounds == MaximumPageEvents \in Nat \ {0} /\ FailedTools \subseteq Effects

VARIABLES
  cursor,  \* sequence of the last event the client was sent (Last-Event-ID)
  permit   \* authorization generation the current request was granted, or -1

pageVars == <<vars, cursor, permit>>

----------------------------------------------------------------------------
(* The page as the Session object cuts it. *)

TurnSequence(t) == (CHOOSE i \in 1..Len(knownTurnIds) : knownTurnIds[i] = t) - 1

AcceptedStatus(t) ==
  LET k == CHOOSE i \in Keys : admissions[i] # None /\ admissions[i].turn = t
  IN  IF admissions[k].activated THEN "active" ELSE "queued"

\* One event of the journal as it is sent
PublicEvent(i) ==
  LET e == publicEvents[i]
  IN  [sequence |-> i, type |-> e.type, turn |-> e.turn,
       turnSequence |-> TurnSequence(e.turn),
       status |-> IF e.type = "accepted" THEN AcceptedStatus(e.turn) ELSE "none",
       effect |-> e.effect,
       service |-> IF e.effect = None THEN "none" ELSE effects[e.effect].service,
       result |-> e.type = "externally_committed" /\ e.effect \notin FailedTools]

PublicTurnIds == {admissions[k].turn : k \in {i \in Keys : admissions[i] # None}}


\* The snapshot shows the active turn only when it was publicly admitted
ReplaySnapshot ==
  LET shown == activeTurn # None /\ activeTurn.turn \in PublicTurnIds
  IN  [turn |-> IF shown THEN activeTurn.turn ELSE None,
       status |-> IF shown THEN activeTurn.status ELSE "none",
       last |-> Len(publicEvents)]

replaySessionPublicEvents(after, limit) ==
  [snapshot |-> ReplaySnapshot,
   events |-> [i \in 1..Min({limit, Len(publicEvents) - after}) |-> PublicEvent(after + i)]]

----------------------------------------------------------------------------
(* Decoding and validating it. *)

EffectTypes == {"prepared", "externally_committed", "settled", "needs_confirmation"}
TerminalTypes == {"completed", "failed", "aborted"}

\* An external commit without a result reference does not decode
DecodableEvent(ev) ==
  /\ ev.type = "accepted" => ev.status \in {"active", "queued"}
  /\ ev.type \in EffectTypes => ev.effect # None /\ ev.service \in {"model", "tool"}
  /\ ev.type = "externally_committed" => ev.result

DecodablePage(page) == \A i \in DOMAIN page.events : DecodableEvent(page.events[i])

\* What the validator knows when it starts: nothing but the cursor
PageStart(after) ==
  [ok |-> TRUE, after |-> after, previous |-> after,
   turns |-> [t \in Turns |-> [seen |-> FALSE, terminal |-> FALSE]],
   live |-> {}, maxSeen |-> -1, lastLifecycle |-> -1,
   effects |-> [e \in Effects |-> [seen |-> FALSE, external |-> FALSE, settled |-> FALSE]],
   activeEffect |-> None, consumable |-> TRUE]

Refused(s) == [s EXCEPT !.ok = FALSE]

ValidAccepted(s, ev) ==
  IF \/ s.turns[ev.turn].seen
     \/ ev.turnSequence <= s.maxSeen
     \/ ev.status = "active" /\ s.live # {}
  THEN Refused(s)
  ELSE [s EXCEPT !.turns[ev.turn].seen = TRUE, !.maxSeen = ev.turnSequence]

ValidTerminal(s, ev, snapshot) ==
  IF s.activeEffect # None \/ ev.turn = snapshot.turn
  THEN Refused(s)
  ELSE [s EXCEPT !.turns[ev.turn].terminal = TRUE, !.consumable = FALSE,
                 !.live = @ \ {ev.turn}]

\* A settled effect leaves the page free for the next one
SettlesEffect(s, ev) == [s EXCEPT !.effects[ev.effect].settled = TRUE, !.activeEffect = None]

EffectStep(s, ev) ==
  CASE ev.type = "prepared" ->
         IF s.activeEffect # None \/ s.effects[ev.effect].seen THEN Refused(s)
         ELSE [s EXCEPT !.activeEffect = ev.effect, !.consumable = FALSE]
    [] ev.type = "externally_committed" ->
         IF \/ s.activeEffect \notin {None, ev.effect}
            \/ s.effects[ev.effect].external \/ s.effects[ev.effect].settled
            \/ ~ev.result
         THEN Refused(s)
         ELSE [s EXCEPT !.effects[ev.effect].external = TRUE, !.activeEffect = ev.effect]
    [] ev.type = "settled" ->
         IF s.activeEffect \notin {None, ev.effect} \/ s.effects[ev.effect].settled
         THEN Refused(s) ELSE SettlesEffect(s, ev)
    [] ev.type = "needs_confirmation" ->
         IF \/ s.activeEffect \notin {None, ev.effect}
            \/ s.effects[ev.effect].external \/ s.effects[ev.effect].settled
         THEN Refused(s) ELSE [s EXCEPT !.activeEffect = ev.effect]


\* A page may inherit the one effect that was in flight at its cursor
ConsumesUnseen(s, ev) ==
  IF ev.type # "prepared" /\ ~s.effects[ev.effect].seen /\ s.activeEffect = None
  THEN IF s.consumable THEN [s EXCEPT !.consumable = FALSE, !.activeEffect = ev.effect]
       ELSE Refused(s)
  ELSE s

ValidEffect(s, ev) ==
  LET family == ev.type = "externally_committed" => ev.service # "model"
      consumed == ConsumesUnseen([s EXCEPT !.live = @ \cup {ev.turn}], ev)
      stepped == EffectStep(consumed, ev)
  IN  IF ~family \/ ~consumed.ok THEN Refused(s)
      ELSE [stepped EXCEPT !.effects[ev.effect].seen = TRUE]

ValidLifecycle(s, ev, snapshot) ==
  LET older == {t \in s.live \ {ev.turn} : TurnSequence(t) < ev.turnSequence}
      entered == [s EXCEPT !.lastLifecycle = ev.turnSequence,
                           !.maxSeen = Max({@, ev.turnSequence}),
                           !.turns[ev.turn].seen = TRUE]
  IN  IF \/ ev.turnSequence < s.lastLifecycle
         \/ ~s.turns[ev.turn].seen /\ s.after = 0
         \/ s.turns[ev.turn].terminal
         \/ older # {}
      THEN Refused(s)
      ELSE IF ev.type \in TerminalTypes THEN ValidTerminal(entered, ev, snapshot)
      ELSE ValidEffect(entered, ev)

ValidEvent(s, ev, snapshot) ==
  IF ~s.ok \/ ev.sequence # s.previous + 1 \/ ev.sequence > snapshot.last THEN Refused(s)
  ELSE LET next == [s EXCEPT !.previous = ev.sequence]
       IN  IF ev.type = "accepted" THEN ValidAccepted(next, ev)
           ELSE ValidLifecycle(next, ev, snapshot)

ValidSnapshot(page, after, limit) ==
  LET snapshot == page.snapshot
  IN  /\ after <= snapshot.last
      /\ (snapshot.turn = None) <=> (snapshot.status = "none")
      /\ snapshot.last = 0 => snapshot.turn = None
      /\ Len(page.events) = Min({limit, snapshot.last - after})

validateSessionPublicEventPage(page, after, limit) ==
  LET final == FoldLeft(LAMBDA s, ev : ValidEvent(s, ev, page.snapshot),
                        PageStart(after), page.events)
      active == page.snapshot.turn
  IN  /\ ValidSnapshot(page, after, limit)
      /\ final.ok
      /\ after = 0 /\ final.previous = page.snapshot.last /\ active # None
           => final.turns[active].seen /\ ~final.turns[active].terminal

----------------------------------------------------------------------------
(* The client and its requests. *)

AuthorizationGeneration == IF Kinds = {} THEN 0 ELSE generations[CHOOSE k \in Kinds : TRUE]

\* authenticate and Authorize: the permit carries the generation seen then
AuthorizeRead ==
  /\ permit = -1
  /\ permit' = AuthorizationGeneration
  /\ UNCHANGED <<vars, cursor>>

\* The session answers a page only under the generation the permit was granted in
Permitted == permit = AuthorizationGeneration

\* A stale permit, a page that does not decode and a page the validator refuses are
\* errors of the read
Readable(page) ==
  /\ Permitted
  /\ DecodablePage(page)
  /\ validateSessionPublicEventPage(page, cursor, MaximumPageEvents)

\* The SSE response: the whole page, or an error and no event
ReplayEvents ==
  /\ permit # -1
  /\ LET page == replaySessionPublicEvents(cursor, MaximumPageEvents)
     IN  cursor' = IF Readable(page) THEN cursor + Len(page.events) ELSE cursor
  /\ permit' = -1
  /\ UNCHANGED vars

PagesInit == Init /\ cursor = 0 /\ permit = -1

SessionStep == Next /\ UNCHANGED <<cursor, permit>>

PagesNext ==
  \/ SessionStep
  \/ AuthorizeRead
  \/ ReplayEvents

----------------------------------------------------------------------------
(* Correctness. *)

\* Every page the Session object can cut from its journal, at every cursor and with
\* every page size, decodes and is accepted by the validator of the public API.
PagesAccepted ==
  \A after \in 0..Len(publicEvents), limit \in 1..MaximumPageEvents :
    LET page == replaySessionPublicEvents(after, limit)
    IN  DecodablePage(page) /\ validateSessionPublicEventPage(page, after, limit)

====
