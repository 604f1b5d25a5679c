---------------------------- MODULE MCWorkspace ----------------------------
(***************************************************************************)
(* The Workspace object in several situations: writers that commit under   *)
(* renewed leases, writers that come back, and writers that queue.  The    *)
(* situations are instances over the same variables; the constants of the  *)
(* module itself cover those of every situation, for the properties.       *)
(***************************************************************************)
EXTENDS Workspace, TLC

CONSTANTS
  Parts,                        \* the situations a run explores
  i1, i2, i3, l1, l2, l3, t1    \* invocations, leases, a ticket

VARIABLE part                   \* the situation this behaviour is of

\* One attempt of each invocation, with renewals and two tickets
Writers == INSTANCE Workspace WITH
  Attempts <- {1}, Authorizations <- {0}, Projections <- {1}, Deadlines <- {3}

\* Two attempts of each invocation, under a new projection or under rotated authorizations
Reacquire == INSTANCE Workspace WITH
  TicketIds <- {t1}, Authorizations <- {0}, Holds <- {1}, Deadlines <- {2},
  MaxTime <- 1, MaxRenewals <- 0
Reauthorize == INSTANCE Workspace WITH
  TicketIds <- {t1}, Projections <- {1}, Holds <- {1}, Deadlines <- {2},
  MaxTime <- 1, MaxRenewals <- 0

\* Three invocations that wait, each until its own deadline; nobody writes
Queue == INSTANCE Workspace WITH
  Invocations <- {i1, i2, i3}, LeaseIds <- {l1, l2, l3}, TicketIds <- {},
  Authorizations <- {0}, Projections <- {1}, Holds <- {1}, Deadlines <- {1, 2},
  MaxTime <- 1, MaxRenewals <- 0

allVars == <<part, vars>>

PartInit ==
  /\ part \in Parts
  /\ CASE part = "commit"    -> Writers!Init
       [] part = "reacquire" -> Reacquire!Init
       [] part = "reauthorize" -> Reauthorize!Init
       [] part = "queue"     -> Queue!Init

PartNext ==
  \/ part = "commit" /\ Writers!Next /\ UNCHANGED part
  \/ part = "reacquire" /\ Reacquire!Next /\ UNCHANGED part
  \/ part = "reauthorize" /\ Reauthorize!Next /\ UNCHANGED part
  \/ part = "queue" /\ Queue!Next /\ UNCHANGED part

PartSpec == PartInit /\ [][PartNext]_allVars

Symmetry ==
  Permutations({i1, i2, i3}) \cup Permutations({l1, l2, l3}) \cup Permutations(TicketIds)
=============================================================================
