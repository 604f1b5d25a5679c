---------------------------- MODULE WorkerdCgroup ----------------------------
(***************************************************************************)
(* The cgroup leaves of workerd shards (internal/agent/                    *)
(* workerd_cgroup_linux.go): a controller over a delegated cgroup root     *)
(* hands out one leaf per shard generation, lets callers borrow the leaf's *)
(* descriptor, and removes the leaf again.                                 *)
(*                                                                         *)
(* Borrows and authority writes (removing a leaf, closing the root)        *)
(* exclude each other through counters guarded by two short mutexes and a  *)
(* broadcast channel; system calls run with no mutex held.  Each action is *)
(* one critical section or one system call.  Someone outside may replace a *)
(* leaf directory, which the controller must notice by its identity.       *)
(***************************************************************************)
EXTENDS Integers, FiniteSets, TLC

CONSTANTS
  Leases,         \* prepared leaves, one per call of prepare
  Borrowers,      \* goroutines that use leaf descriptors
  NameOf,         \* leaf name of each lease (workerdCgroupLeafName)
  MaximumShards,  \* config.MaximumShards
  MaxReplaced,    \* bound: directories replaced from outside
  MaxDestroys,    \* bound: destroy operations per lease
  Closer          \* the goroutine that closes the controller

CgroupBounds ==
  /\ MaximumShards \in Nat \ {0} /\ MaxReplaced \in Nat /\ MaxDestroys \in Nat
  /\ DOMAIN NameOf = Leases /\ Closer \notin Leases

VARIABLES
  ctl,        \* workerdCgroupController: reserved, borrows, waiting, active, poisoned, closed
  lease,      \* workerdCgroupLease, and how far prepare and destroy are
  borrower,   \* withDirectoryFD calls
  writer,     \* beginAuthorityWrite calls, by lease or Closer
  path,       \* external: whose directory has each leaf name
  process,    \* external: the process attached to each leaf
  closes,     \* descriptors closed: how often each leaf's, and the root's
  replaced    \* directories replaced from outside so far

vars == <<ctl, lease, borrower, writer, path, process, closes, replaced>>

Names == {NameOf[l] : l \in Leases}
Nobody == "nobody"
Outsider == "outsider"

\* prepare, in order; then the lease is held, or there is none.
PrepareSteps == {"unused", "reserved", "made", "opened", "baseline", "failing", "held", "gone"}
\* destroy, in order; "failed" may be tried again.
DestroySteps == {"none", "quiesce", "kill", "drain", "write", "finish", "failed", "done"}

Lease ==
  [pc : PrepareSteps, op : DestroySteps, attachable : BOOLEAN, destroyed : BOOLEAN,
   terminal : BOOLEAN, borrows : Nat, tries : Nat,
   result : {"pending", "failed", "released", "terminal"}]

Init ==
  /\ ctl = [reserved |-> 0, borrows |-> 0, waiting |-> 0, active |-> FALSE,
            poisoned |-> FALSE, closed |-> FALSE]
  /\ lease = [l \in Leases |->
       [pc |-> "unused", op |-> "none", attachable |-> FALSE, destroyed |-> FALSE,
        terminal |-> FALSE, borrows |-> 0, tries |-> 0, result |-> "pending"]]
  /\ borrower = [b \in Borrowers |-> [pc |-> "idle", lease |-> Nobody, use |-> "sample"]]
  /\ writer = [w \in Leases \cup {Closer} |-> [pc |-> "idle"]]
  /\ path = [n \in Names |-> Nobody]
  /\ process = [l \in Leases |-> "none"]
  /\ closes = [w \in Leases \cup {Closer} |-> 0]
  /\ replaced = 0

Own(l) == path[NameOf[l]] = l
Populated(l) == process[l] \in {"running", "killed"}

-----------------------------------------------------------------------------
\* Authority

\* notifyAuthorityChangedLocked: whoever sleeps on the channel looks again.
Wake(f) == [x \in DOMAIN f |-> IF f[x].pc = "asleep" THEN [f[x] EXCEPT !.pc = "awake"] ELSE f[x]]

NotifyAuthorityChanged ==
  /\ writer' = Wake(writer)
  /\ borrower' = Wake(borrower)

\* Mutant of MayWrite.
MayWriteOverBorrows == ~ctl.active

MayWrite == ~ctl.active /\ ctl.borrows = 0

BeginAuthorityWrite(w) ==
  /\ writer[w].pc \in {"enters", "awake"}
  /\ LET first == writer[w].pc = "enters"
         waiting == ctl.waiting + (IF first THEN 1 ELSE 0)
     IN IF MayWrite
        THEN /\ ctl' = [ctl EXCEPT !.waiting = waiting - 1, !.active = TRUE]
             /\ writer' = [Wake(writer) EXCEPT ![w].pc = "active"]
             /\ borrower' = Wake(borrower)
        ELSE /\ ctl' = [ctl EXCEPT !.waiting = waiting]
             /\ writer' = [(IF first THEN Wake(writer) ELSE writer) EXCEPT ![w].pc = "asleep"]
             /\ borrower' = IF first THEN Wake(borrower) ELSE borrower
  /\ UNCHANGED <<lease, path, process, closes, replaced>>

EndAuthorityWrite(w) ==
  /\ writer[w].pc = "ends"
  /\ ctl' = [ctl EXCEPT !.active = FALSE]
  /\ writer' = [Wake(writer) EXCEPT ![w].pc = "idle"]
  /\ borrower' = Wake(borrower)
  /\ UNCHANGED <<lease, path, process, closes, replaced>>

Enter(w) == writer' = [writer EXCEPT ![w].pc = "enters"]

-----------------------------------------------------------------------------
\* prepare

Admits == ~ctl.poisoned /\ ~ctl.closed /\ ctl.reserved < MaximumShards

\* A refused prepare leaves nothing behind.
Reserve(l) ==
  /\ lease[l].pc = "unused" /\ Admits
  /\ ctl' = [ctl EXCEPT !.reserved = @ + 1]
  /\ lease' = [lease EXCEPT ![l].pc = "reserved"]
  /\ UNCHANGED <<borrower, writer, path, process, closes, replaced>>

MakeDirectory(l) ==
  /\ lease[l].pc = "reserved"
  /\ \/ /\ path[NameOf[l]] = Nobody
        /\ path' = [path EXCEPT ![NameOf[l]] = l]
        /\ lease' = [lease EXCEPT ![l].pc = "made"]
        /\ UNCHANGED ctl
     \/ /\ lease' = [lease EXCEPT ![l].pc = "gone"]
        /\ ctl' = [ctl EXCEPT !.reserved = @ - 1]
        /\ UNCHANGED path
  /\ UNCHANGED <<borrower, writer, process, closes, replaced>>

\* A child that cannot be opened is abandoned on disk: no leaf is handed out
\* after that.
OpenFails == [ctl EXCEPT !.reserved = @ - 1, !.poisoned = TRUE]

OpenChild(l) ==
  /\ lease[l].pc = "made"
  /\ \/ /\ Own(l)
        /\ lease' = [lease EXCEPT ![l].pc = "opened"]
        /\ UNCHANGED <<ctl, writer, borrower>>
     \/ /\ lease' = [lease EXCEPT ![l].pc = "gone"]
        /\ ctl' = OpenFails
        /\ NotifyAuthorityChanged
  /\ UNCHANGED <<path, process, closes, replaced>>

\* What reading a control file of a leaf gives: the value expected of it,
\* another one, something that does not parse, or an error.
Readings == {"exact", "other", "malformed", "unreadable"}

\* Single values and cpu.max must be what the controller wrote; counters must
\* parse, and only ever grow from the baseline.
ExactValue(reading) == reading = "exact"
CPUMaxHolds(reading) == reading = "exact"
CountersRead(reading) == reading \in {"exact", "other"}

\* verifyPinnedIdentity: the name still leads to this leaf, or the controller
\* is poisoned.
PoisonedAs(w) ==
  /\ ctl' = [ctl EXCEPT !.poisoned = TRUE]
  /\ writer' = [Wake(writer) EXCEPT ![w].pc = "enters"]
  /\ borrower' = Wake(borrower)

RollBack(l) ==
  /\ lease' = [lease EXCEPT ![l].pc = "failing"]
  /\ \/ Enter(l) /\ UNCHANGED <<ctl, borrower>>
     \/ ~Own(l) /\ PoisonedAs(l)

\* The leaf is checked to be empty and its limits are written and read back;
\* any failure rolls it back under the authority.
ConfigureLeaf(l) ==
  /\ lease[l].pc = "opened"
  /\ \E reading \in Readings :
       IF ExactValue(reading) /\ CPUMaxHolds(reading) /\ Own(l)
       THEN /\ lease' = [lease EXCEPT ![l].pc = "baseline"]
            /\ UNCHANGED <<ctl, borrower, writer>>
       ELSE RollBack(l)
  /\ UNCHANGED <<path, process, closes, replaced>>

\* The counter baseline is read between two checks of the leaf's identity.
FinishPrepare(l) ==
  /\ lease[l].pc = "baseline"
  /\ \E reading \in Readings :
       IF CountersRead(reading) /\ Own(l) /\ ~ctl.poisoned
       THEN /\ lease' = [lease EXCEPT ![l].pc = "held", ![l].attachable = TRUE]
            /\ UNCHANGED <<ctl, borrower, writer>>
       ELSE RollBack(l)
  /\ UNCHANGED <<path, process, closes, replaced>>

\* The deferred rollback: the directory is removed only under its own
\* identity; where that cannot be told or done, the caller gets the lease and
\* must destroy it.
RollbackKeeps(l) ==
  /\ lease[l].pc = "failing" /\ writer[l].pc \in {"active", "removing"}
  /\ lease' = [lease EXCEPT ![l].pc = "held"]
  /\ writer' = [writer EXCEPT ![l].pc = "ends"]
  /\ UNCHANGED <<ctl, borrower, path, process, closes, replaced>>

RollbackFindsReplaced(l) ==
  /\ lease[l].pc = "failing" /\ writer[l].pc = "active" /\ ~Own(l)
  /\ ctl' = [ctl EXCEPT !.reserved = @ - 1, !.poisoned = TRUE]
  /\ lease' = [lease EXCEPT ![l].pc = "gone"]
  /\ closes' = [closes EXCEPT ![l] = @ + 1]
  /\ writer' = [Wake(writer) EXCEPT ![l].pc = "ends"]
  /\ borrower' = Wake(borrower)
  /\ UNCHANGED <<path, process, replaced>>

\* identityAt and removeChild are two system calls.
Identified(l) == Own(l)

IdentifyLeaf(l) ==
  /\ writer[l].pc = "active" /\ Identified(l)
  /\ writer' = [writer EXCEPT ![l].pc = "removing"]
  /\ UNCHANGED <<ctl, lease, borrower, path, process, closes, replaced>>

\* The kernel removes a directory by name, if there is one and it is empty.
Removable(n) ==
  /\ path[n] # Nobody
  /\ path[n] \in Leases => ~Populated(path[n])

RollbackRemoves(l) ==
  /\ lease[l].pc = "failing" /\ writer[l].pc = "removing" /\ Removable(NameOf[l])
  /\ path' = [path EXCEPT ![NameOf[l]] = Nobody]
  /\ ctl' = [ctl EXCEPT !.reserved = @ - 1]
  /\ lease' = [lease EXCEPT ![l].pc = "gone"]
  /\ closes' = [closes EXCEPT ![l] = @ + 1]
  /\ writer' = [writer EXCEPT ![l].pc = "ends"]
  /\ UNCHANGED <<borrower, process, replaced>>

-----------------------------------------------------------------------------
\* withDirectoryFD: attaching a process, and sampleResources

BeginBorrow(b, l) ==
  /\ borrower[b].pc = "idle" /\ lease[l].pc = "held"
  /\ \E use \in {"attach", "sample"} :
       /\ use = "attach" => process[l] = "none" /\ lease[l].op = "none"
       /\ borrower' = [borrower EXCEPT ![b] = [pc |-> "awake", lease |-> l, use |-> use]]
  /\ UNCHANGED <<ctl, lease, writer, path, process, closes, replaced>>

Idle == [pc |-> "idle", lease |-> Nobody, use |-> "sample"]

WritersFirst == ctl.active \/ ctl.waiting > 0

AwaitAuthority(b) ==
  /\ borrower[b].pc = "awake"
  /\ IF ctl.poisoned \/ ctl.closed
     THEN borrower' = [borrower EXCEPT ![b] = Idle] /\ UNCHANGED ctl
     ELSE IF WritersFirst
     THEN borrower' = [borrower EXCEPT ![b].pc = "asleep"] /\ UNCHANGED ctl
     ELSE /\ borrower' = [borrower EXCEPT ![b].pc = "counted"]
          /\ ctl' = [ctl EXCEPT !.borrows = @ + 1]
  /\ UNCHANGED <<lease, writer, path, process, closes, replaced>>

LeaseUnavailable(l) == ~lease[l].attachable \/ lease[l].destroyed \/ lease[l].op # "none"

\* Giving the count back wakes the writers that wait for it.
ReturnsBorrow(b) ==
  /\ ctl' = [ctl EXCEPT !.borrows = @ - 1]
  /\ borrower' = [Wake(borrower) EXCEPT ![b] = Idle]
  /\ writer' = Wake(writer)

BorrowLease(b) ==
  /\ borrower[b].pc = "counted"
  /\ LET l == borrower[b].lease
     IN IF LeaseUnavailable(l)
        THEN ReturnsBorrow(b) /\ UNCHANGED lease
        ELSE /\ lease' = [lease EXCEPT ![l].borrows = @ + 1]
             /\ borrower' = [borrower EXCEPT ![b].pc = "using"]
             /\ UNCHANGED <<ctl, writer>>
  /\ UNCHANGED <<path, process, closes, replaced>>

\* The starter places the process in the leaf as it starts it, or fails.
Attach(b) ==
  /\ borrower[b].pc = "using" /\ borrower[b].use = "attach"
  /\ LET l == borrower[b].lease
     IN \/ Own(l) /\ process' = [process EXCEPT ![l] = "running"]
        \/ UNCHANGED process
  /\ borrower' = [borrower EXCEPT ![b].pc = "leaving"]
  /\ UNCHANGED <<ctl, lease, writer, path, closes, replaced>>

\* sampleResources verifies the leaf's identity before and after its reads; a
\* failed read, a malformed or changed value or a cancelled context ends it.
Sample(b) ==
  /\ borrower[b].use = "sample" /\ borrower[b].pc \in {"using", "reading"}
  /\ \E reading \in Readings :
       LET l == borrower[b].lease
           next == IF borrower[b].pc = "using" /\ CountersRead(reading) /\ Own(l)
                   THEN "reading" ELSE "leaving"
       IN \/ /\ borrower' = [borrower EXCEPT ![b].pc = next]
             /\ UNCHANGED <<ctl, writer>>
          \/ /\ ~Own(l)
             /\ ctl' = [ctl EXCEPT !.poisoned = TRUE]
             /\ borrower' = [Wake(borrower) EXCEPT ![b].pc = "leaving"]
             /\ writer' = Wake(writer)
  /\ UNCHANGED <<lease, path, process, closes, replaced>>

LeaveLease(b) ==
  /\ borrower[b].pc = "leaving"
  /\ lease' = [lease EXCEPT ![borrower[b].lease].borrows = @ - 1]
  /\ borrower' = [borrower EXCEPT ![b].pc = "left"]
  /\ UNCHANGED <<ctl, writer, path, process, closes, replaced>>

ReturnBorrow(b) ==
  /\ borrower[b].pc = "left"
  /\ ReturnsBorrow(b)
  /\ UNCHANGED <<lease, path, process, closes, replaced>>

-----------------------------------------------------------------------------
\* destroy

\* One operation at a time; further callers join it, and once the lease is
\* destroyed they get its terminal error.
BeginDestroy(l) ==
  /\ lease[l].pc = "held" /\ lease[l].op \in {"none", "failed"} /\ ~lease[l].destroyed
  /\ lease[l].tries < MaxDestroys
  /\ lease' = [lease EXCEPT ![l].op = "quiesce", ![l].tries = @ + 1, ![l].result = "pending"]
  /\ UNCHANGED <<ctl, borrower, writer, path, process, closes, replaced>>

Quiescent(l) == lease[l].borrows = 0

\* The goroutine waits for the borrows, then kills, unless there was never
\* anything to kill.
AwaitQuiescence(l) ==
  /\ lease[l].op = "quiesce" /\ Quiescent(l) /\ writer[l].pc = "idle"
  /\ IF lease[l].attachable
     THEN lease' = [lease EXCEPT ![l].op = "kill"] /\ UNCHANGED writer
     ELSE lease' = [lease EXCEPT ![l].op = "write"] /\ Enter(l)
  /\ UNCHANGED <<ctl, borrower, path, process, closes, replaced>>

Kill(l) ==
  /\ lease[l].op = "kill"
  /\ \/ /\ lease' = [lease EXCEPT ![l].op = "drain"]
        /\ process' = [process EXCEPT ![l] = IF @ = "running" THEN "killed" ELSE @]
     \/ /\ lease' = [lease EXCEPT ![l].op = "finish", ![l].result = "failed"]
        /\ UNCHANGED process
  /\ UNCHANGED <<ctl, borrower, writer, path, closes, replaced>>

\* cgroup.events says the leaf is empty.
Drained(l) ==
  /\ lease[l].op = "drain" /\ ~Populated(l)
  /\ lease' = [lease EXCEPT ![l].op = "write"]
  /\ Enter(l)
  /\ UNCHANGED <<ctl, borrower, path, process, closes, replaced>>

\* The drain deadline passes, or cgroup.events cannot be read.
DrainFails(l) ==
  /\ lease[l].op = "drain"
  /\ lease' = [lease EXCEPT ![l].op = "finish", ![l].result = "failed"]
  /\ UNCHANGED <<ctl, borrower, writer, path, process, closes, replaced>>

DestroyWrites(l) == lease[l].op = "write" /\ lease[l].result = "pending"

WriteFails(l) ==
  /\ DestroyWrites(l) /\ writer[l].pc \in {"active", "removing"}
  /\ lease' = [lease EXCEPT ![l].result = "failed"]
  /\ writer' = [writer EXCEPT ![l].pc = "ends"]
  /\ UNCHANGED <<ctl, borrower, path, process, closes, replaced>>

DestroyFindsReplaced(l) ==
  /\ DestroyWrites(l) /\ writer[l].pc = "active" /\ ~Own(l)
  /\ ctl' = [ctl EXCEPT !.reserved = @ - 1, !.poisoned = TRUE]
  /\ closes' = [closes EXCEPT ![l] = @ + 1]
  /\ lease' = [lease EXCEPT ![l].result = "terminal"]
  /\ writer' = [Wake(writer) EXCEPT ![l].pc = "ends"]
  /\ borrower' = Wake(borrower)
  /\ UNCHANGED <<path, process, replaced>>

\* Closing the descriptor of a removed leaf may fail, which is reported but
\* releases the leaf all the same.
DestroyRemoves(l) ==
  /\ DestroyWrites(l) /\ writer[l].pc = "removing" /\ Removable(NameOf[l])
  /\ path' = [path EXCEPT ![NameOf[l]] = Nobody]
  /\ ctl' = [ctl EXCEPT !.reserved = @ - 1]
  /\ closes' = [closes EXCEPT ![l] = @ + 1]
  /\ \E result \in {"released", "terminal"} :
       lease' = [lease EXCEPT ![l].result = result]
  /\ writer' = [writer EXCEPT ![l].pc = "ends"]
  /\ UNCHANGED <<borrower, process, replaced>>

WriteEnds(l) ==
  /\ lease[l].op = "write" /\ lease[l].result # "pending" /\ writer[l].pc = "idle"
  /\ lease' = [lease EXCEPT ![l].op = "finish"]
  /\ UNCHANGED <<ctl, borrower, writer, path, process, closes, replaced>>

\* Ownership is released with or without an error; only a failure that kept
\* it may be retried.
Released(l) == lease[l].result # "failed"

FinishDestroy(l) ==
  /\ lease[l].op = "finish"
  /\ lease' = [lease EXCEPT
       ![l].op = IF Released(l) THEN "done" ELSE "failed",
       ![l].destroyed = Released(l),
       ![l].terminal = Released(l) /\ lease[l].result # "released"]
  /\ UNCHANGED <<ctl, borrower, writer, path, process, closes, replaced>>

-----------------------------------------------------------------------------
\* close, and the outside

Busy == ctl.reserved # 0

\* With leaves reserved, close returns errWorkerdCgroupBusy and changes nothing.
BeginClose ==
  /\ ~ctl.closed /\ ~Busy
  /\ ctl' = [ctl EXCEPT !.closed = TRUE]
  /\ writer' = [Wake(writer) EXCEPT ![Closer].pc = "enters"]
  /\ borrower' = Wake(borrower)
  /\ UNCHANGED <<lease, path, process, closes, replaced>>

CloseRoot ==
  /\ writer[Closer].pc = "active"
  /\ closes' = [closes EXCEPT ![Closer] = @ + 1]
  /\ writer' = [writer EXCEPT ![Closer].pc = "ends"]
  /\ UNCHANGED <<ctl, lease, borrower, path, process, replaced>>

\* close has returned; its error is errWorkerdCgroupPoisoned if poisoned.
Closed == ctl.closed /\ closes[Closer] = 1 /\ writer[Closer].pc = "idle"

\* Someone with authority over the root removes an empty leaf, and may put
\* another directory in its place.
ReplaceDirectory(l) ==
  /\ replaced < MaxReplaced /\ Own(l) /\ ~Populated(l)
  /\ replaced' = replaced + 1
  /\ \E other \in {Nobody, Outsider} : path' = [path EXCEPT ![NameOf[l]] = other]
  /\ UNCHANGED <<ctl, lease, borrower, writer, process, closes>>

ProcessExits(l) ==
  /\ Populated(l)
  /\ process' = [process EXCEPT ![l] = "exited"]
  /\ UNCHANGED <<ctl, lease, borrower, writer, path, closes, replaced>>

-----------------------------------------------------------------------------
Prepare(l) ==
  \/ MakeDirectory(l) \/ OpenChild(l) \/ ConfigureLeaf(l) \/ FinishPrepare(l)
  \/ RollbackKeeps(l) \/ RollbackFindsReplaced(l) \/ RollbackRemoves(l)

Destroy(l) ==
  \/ AwaitQuiescence(l) \/ Kill(l) \/ Drained(l) \/ DrainFails(l)
  \/ WriteFails(l) \/ DestroyFindsReplaced(l) \/ DestroyRemoves(l)
  \/ WriteEnds(l) \/ FinishDestroy(l)

Borrow(b) ==
  \/ AwaitAuthority(b) \/ BorrowLease(b) \/ Attach(b) \/ Sample(b)
  \/ LeaveLease(b) \/ ReturnBorrow(b)

Authority(w) ==
  \/ BeginAuthorityWrite(w) \/ EndAuthorityWrite(w)
  \/ w \in Leases /\ IdentifyLeaf(w)

Next ==
  \/ \E l \in Leases :
       Reserve(l) \/ Prepare(l) \/ BeginDestroy(l) \/ Destroy(l)
       \/ ReplaceDirectory(l) \/ ProcessExits(l)
  \/ \E b \in Borrowers : Borrow(b) \/ \E l \in Leases : BeginBorrow(b, l)
  \/ \E w \in Leases \cup {Closer} : Authority(w)
  \/ BeginClose \/ CloseRoot

Spec == Init /\ [][Next]_vars

-----------------------------------------------------------------------------
\* Every variable keeps its type.
TypeOK ==
  /\ ctl \in [reserved : Nat, borrows : Nat, waiting : Nat, active : BOOLEAN,
              poisoned : BOOLEAN, closed : BOOLEAN]
  /\ lease \in [Leases -> Lease]
  /\ \A b \in Borrowers :
       borrower[b].pc \in {"idle", "awake", "asleep", "counted", "using", "reading", "leaving", "left"}
  /\ \A w \in Leases \cup {Closer} :
       writer[w].pc \in {"idle", "enters", "awake", "asleep", "active", "removing", "ends"}
  /\ path \in [Names -> Leases \cup {Nobody, Outsider}]

Writing == {"active", "removing", "ends"}

\* While a leaf is being removed or the root closed, nobody uses a leaf
\* descriptor and no second authority write is under way.
WriteExcludesUse ==
  \A w \in Leases \cup {Closer} : writer[w].pc \in Writing =>
    /\ \A b \in Borrowers : borrower[b].pc \notin {"using", "reading", "leaving"}
    /\ \A v \in Leases \cup {Closer} : writer[v].pc \in Writing => v = w

\* A borrowed leaf descriptor is open for as long as it is used, and every
\* descriptor is closed at most once.
DescriptorsPinned ==
  /\ \A b \in Borrowers :
       borrower[b].pc \in {"using", "reading"} => closes[borrower[b].lease] = 0
  /\ \A w \in Leases \cup {Closer} : closes[w] <= 1

\* Whoever names a leaf through the root descriptor finds the root open:
\* prepare, a sample's identity check, a removal.
RootPinned ==
  ctl.closed =>
    /\ \A l \in Leases :
         /\ lease[l].pc \notin {"reserved", "made", "opened", "baseline"}
         /\ writer[l].pc \notin {"active", "removing"}
    /\ \A b \in Borrowers : borrower[b].pc \notin {"using", "reading"}

\* The leaf directories the controller made never outnumber MaximumShards,
\* those it abandoned or failed to remove included.
LeavesBounded ==
  Cardinality({l \in Leases : Own(l)}) <= MaximumShards

\* When close returns without an error, no directory of the controller is
\* left under the root, no process, and no open descriptor.
CleanClose ==
  Closed /\ ~ctl.poisoned =>
    \A l \in Leases :
      /\ ~Own(l) /\ ~Populated(l)
      /\ lease[l].pc = "held" => closes[l] = 1

=============================================================================
