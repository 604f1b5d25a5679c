----------------------------- MODULE MCSession -----------------------------
(***************************************************************************)
(* The Session object alone, and with what stands around it: the public    *)
(* journal and its pages, the admission of turns, and the start claims.    *)
(* A behaviour is of one part; the variables of the others do not move.    *)
(***************************************************************************)
EXTENDS Session, TLC

CONSTANTS
  Parts,                   \* the parts a run explores
  t1, t2, t3, e1, e2,      \* turns, effects
  r1, r2, r3, k1, k2, authorization,
  c1, c2, d1, d2           \* callers, request and command digests

VARIABLES
  part,                    \* the part this behaviour is of
  cursor, permit,          \* EventPages
  calls, commands, digests, answers, abandoned,   \* SessionCallers, public requests
  consumers, claims, receipts, starts, lost       \* SessionCallers, start claims

\* Runtime revisions staged, activated and rolled back around two turns
Runtime == INSTANCE Session WITH
  Revisions <- {r1, r2, r3}, Policies <- {"never"}, MaxTime <- 1, MaxGeneration <- 0

\* Two turns, one of which is aborted whatever its effect is doing
Aborting == INSTANCE Session WITH
  Turns <- {t1, t2}, Effects <- {e1}, Kinds <- {}, MaxTime <- 1, MaxGeneration <- 0

\* The public journal of two turns, public and private, with two effects
Public == INSTANCE EventPages WITH
  Turns <- {t1, t2}, Effects <- {e1, e2}, Revisions <- {r1}, Keys <- {k1}, Kinds <- {},
  Policies <- {"confirm"}, Services <- {"tool", "model"}, MaxTime <- 1, MaxGeneration <- 0,
  Capacity <- 10, MaximumPageEvents <- 2, FailedTools <- {}

\* One reader, a turn with an effect, and a rotation of the reader's authorization
Reading == INSTANCE EventPages WITH
  Turns <- {t1}, Effects <- {e1}, Revisions <- {r1}, Keys <- {k1}, Kinds <- {authorization},
  Policies <- {"never"}, Services <- {"tool"}, MaxTime <- 1, MaxGeneration <- 1,
  Capacity <- 8, MaximumPageEvents <- 2, FailedTools <- {}

\* Two callers, two requests under one key, lost answers and late commands
Admission == INSTANCE SessionCallers WITH
  Turns <- {t1, t2, t3}, Effects <- {}, Revisions <- {r1, r2}, Keys <- {k1},
  Kinds <- {authorization}, Policies <- {"never"}, Services <- {"tool"}, MaxTime <- 1,
  MaxGeneration <- 1, Capacity <- 5, Calls <- {c1, c2}, Digests <- {d1, d2}, MaxAbandoned <- 1,
  Consumers <- {}, CommandDigests <- {}, Starters <- {}, MaxLost <- 0

\* Two consumers with two provider commands for one effect, which may be retried
Claims == INSTANCE SessionCallers WITH
  Turns <- {t1}, Effects <- {e1}, Revisions <- {r1}, Keys <- {}, Kinds <- {},
  Policies <- {"safe"}, Services <- {"tool"}, MaxTime <- 1, MaxGeneration <- 1,
  Capacity <- 9, Consumers <- {c1, c2}, CommandDigests <- {d1, d2}, Starters <- {"tool"},
  MaxLost <- 1, Calls <- {}, Digests <- {}, MaxAbandoned <- 0

ASSUME Public!PageBounds /\ Reading!PageBounds
ASSUME Admission!AdmissionBounds /\ Claims!ClaimBounds

pageVars == <<cursor, permit>>
admissionVars == <<calls, commands, digests, answers, abandoned>>
claimVars == <<consumers, claims, receipts, starts, lost>>
allVars == <<part, vars, pageVars, admissionVars, claimVars>>

NoPages == cursor = 0 /\ permit = -1
NoAdmission == calls = {} /\ commands = {} /\ digests = {} /\ answers = {} /\ abandoned = 0
NoClaims == consumers = {} /\ claims = {} /\ receipts = {} /\ starts = {} /\ lost = 0

PartInit ==
  /\ part \in Parts
  /\ CASE part = "dispatch"   -> Init /\ NoPages /\ NoAdmission /\ NoClaims
       [] part = "runtime"    -> Runtime!Init /\ NoPages /\ NoAdmission /\ NoClaims
       [] part = "aborting"   -> Aborting!Init /\ NoPages /\ NoAdmission /\ NoClaims
       [] part = "public"     -> Public!PagesInit /\ NoAdmission /\ NoClaims
       [] part = "reading"    -> Reading!PagesInit /\ NoAdmission /\ NoClaims
       [] part = "admission"  -> Admission!AdmissionInit /\ NoPages /\ NoClaims
       [] part = "claims"     -> Claims!ClaimsInit /\ NoPages /\ NoAdmission

PartNext ==
  \/ /\ part = "dispatch" /\ Next
     /\ UNCHANGED <<part, pageVars, admissionVars, claimVars>>
  \/ /\ part = "runtime" /\ Runtime!Next
     /\ UNCHANGED <<part, pageVars, admissionVars, claimVars>>
  \/ /\ part = "aborting" /\ Aborting!Next
     /\ UNCHANGED <<part, pageVars, admissionVars, claimVars>>
  \/ /\ part = "public" /\ Public!SessionStep
     /\ UNCHANGED <<part, admissionVars, claimVars>>
  \/ /\ part = "reading" /\ Reading!PagesNext
     /\ UNCHANGED <<part, admissionVars, claimVars>>
  \/ /\ part = "admission" /\ Admission!AdmissionNext
     /\ UNCHANGED <<part, pageVars, claimVars>>
  \/ /\ part = "claims" /\ Claims!ClaimsNext
     /\ UNCHANGED <<part, pageVars, admissionVars>>

PartSpec == PartInit /\ [][PartNext]_allVars

\* The owner of an aborted turn keeps driving it; the client of a stream reconnects
FairPartSpec ==
  /\ PartSpec
  /\ WF_vars(part = "aborting" /\ Aborting!DriveAbort)
  /\ WF_pageVars(part = "reading" /\ Reading!AuthorizeRead)
  /\ WF_pageVars(part = "reading" /\ Reading!ReplayEvents)

Symmetry == Permutations({t1, t2}) \cup Permutations({e1, e2})
CallerSymmetry == Permutations({t1, t2}) \cup Permutations({c1, c2}) \cup Permutations({d1, d2})

----------------------------------------------------------------------------
(* What the parts promise, each in its own terms. *)


\* However often a request is retried, given up and executed late, all answers under
\* its key name one turn, the one the session admitted for that very request.  Over all
\* consumers, commands, repeats and lost answers the provider of an effect is started at
\* most once, and for the attempt whose start the session has recorded.
AdmittedOnce ==
  /\ part = "admission" => Admission!OneAnswer
  /\ part = "claims" => Claims!StartsOnce

\* Nobody is told a turn under an authorization generation that was rotated after the
\* request was authorized.
AnswersAreAuthorized ==
  [][part = "admission" /\ answers' # answers =>
       \A c \in {c1, c2} : calls'[c] # calls[c] => calls[c].gen = Admission!AuthorizationGeneration
    ]_allVars

\* A requested abort ends the turn, whatever its effect was doing.
AbortEndsTurn == part = "aborting" => Aborting!AbortCompletes

====
