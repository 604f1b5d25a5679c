--------------------------- MODULE SandboxStreams ---------------------------
(***************************************************************************)
(* The streams of one supervised process: two output readers that share    *)
(* the output limit, the event log with its bounded replay, attachments    *)
(* with bounded queues and bounded slots, standard input behind a gate,    *)
(* and the exit that closes them all.                                      *)
(***************************************************************************)
EXTENDS Integers, Sequences, FiniteSets, SequencesExt

CONSTANTS
    Readers,        \* clients that attach
    Writers,        \* clients that write to standard input
    OutputLimit, ReplayEvents, ReplayBytes, SubscriberBuffer, MaximumAttachments,
    ReadChunk,      \* the most bytes one read returns
    MaxReads        \* bound on reads that return data

VARIABLES
    process,    \* the operating system's process, and the record's end
    stream,     \* per output stream: where consumeStream is
    out,        \* bytes accepted against the output limit
    log,        \* every event published, in order
    oldest,     \* the first event of the log the replay retains
    sub,        \* per reader: its attachment
    slots,      \* attachment slots taken
    stdin,      \* closed, the gate's holder, and what the process was sent
    writer,     \* per writer: where its WriteStdin is
    reads

vars == <<process, stream, out, log, oldest, sub, slots, stdin, writer, reads>>

Streams == {"stdout", "stderr"}
NoSub == [state |-> "none", after |-> 0, queue |-> << >>, capacity |-> 0,
          received |-> << >>, error |-> ""]

Init ==
    /\ process = [alive |-> TRUE, reason |-> "", terminal |-> FALSE]
    /\ stream = [s \in Streams |-> [pc |-> "reading", count |-> 0, accepted |-> 0]]
    /\ out = 0
    /\ log = <<[type |-> "started", size |-> 0]>>
    /\ oldest = 1
    /\ sub = [a \in Readers |-> NoSub]
    /\ slots = 0
    /\ stdin = [closed |-> FALSE, holder |-> {}, content |-> << >>]
    /\ writer = [w \in Writers |-> "idle"]
    /\ reads = 0

-----------------------------------------------------------------------------
(* Publishing.                                                             *)

Bytes(events) == FoldLeft(LAMBDA n, e : n + e.size, 0, events)

\* The replay drops its oldest events until it is within both of its limits.
Trimmed(events, from) ==
    CHOOSE k \in from .. Len(events) + 1 :
        /\ Len(events) - k + 1 <= ReplayEvents
        /\ Bytes(SubSeq(events, k, Len(events))) <= ReplayBytes
        /\ \A j \in from .. k - 1 : \/ Len(events) - j + 1 > ReplayEvents
                                    \/ Bytes(SubSeq(events, j, Len(events))) > ReplayBytes

\* finishSubscriber: the queue is closed but keeps what it holds, and its slot.
finishSubscriber(b, error) ==
    IF b.state # "open" THEN b ELSE [b EXCEPT !.state = "finished", !.error = error]

\* An open subscriber gets the event, or ends if its queue is full.
Delivered(b, n) ==
    IF b.state # "open" THEN b
    ELSE IF Len(b.queue) < b.capacity
      THEN [b EXCEPT !.queue = Append(@, n)]
      ELSE finishSubscriber(b, "backpressure")

publishLocked(type, size) ==
    LET n == Len(log) + 1 IN
    /\ log' = Append(log, [type |-> type, size |-> size])
    /\ oldest' = Trimmed(log', oldest)
    /\ sub' = [a \in Readers |->
                 IF type = "exit" THEN finishSubscriber(Delivered(sub[a], n), "")
                                  ELSE Delivered(sub[a], n)]

-----------------------------------------------------------------------------
(* consumeStream.                                                          *)

Smaller(a, b) == IF a < b THEN a ELSE b

\* A read of n bytes reserves what the limit leaves, under the record's lock.
Reserved(s, n) ==
    LET accepted == Smaller(n, OutputLimit - out) IN
    /\ out' = out + accepted
    /\ stream' = [stream EXCEPT ![s] = [pc |-> "reserved", count |-> n, accepted |-> accepted]]

Read(s) ==
    /\ stream[s].pc = "reading"
    /\ reads < MaxReads
    /\ reads' = reads + 1
    /\ process.alive
    /\ \E n \in 1 .. ReadChunk : Reserved(s, n)
    /\ UNCHANGED <<process, log, oldest, sub, slots, stdin, writer>>

\* What was accepted is published; a shortened read is over the limit.
PublishOutput(s) ==
    /\ stream[s].pc = "reserved"
    /\ IF stream[s].accepted > 0
         THEN publishLocked(s, stream[s].accepted)
         ELSE UNCHANGED <<log, oldest, sub>>
    /\ stream' = [stream EXCEPT ![s].pc = IF stream[s].accepted < stream[s].count
                                          THEN "over" ELSE "reading"]
    /\ UNCHANGED <<process, out, slots, stdin, writer, reads>>

\* The process is terminated for its output, and only then the stream is done.
OverLimit(s) ==
    /\ stream[s].pc = "over"
    /\ process' = IF process.terminal \/ process.reason = "fenced" THEN process
                  ELSE [process EXCEPT !.reason = "output_limit", !.alive = FALSE]
    /\ stream' = [stream EXCEPT ![s].pc = "closed"]
    /\ UNCHANGED <<out, log, oldest, sub, slots, stdin, writer, reads>>

\* The end of the stream, after the process, or a read error, which is published.
StreamEnds(s) ==
    /\ stream[s].pc = "reading"
    /\ ~process.alive
    /\ stream' = [stream EXCEPT ![s].pc = "closed"]
    /\ UNCHANGED <<process, out, log, oldest, sub, slots, stdin, writer, reads>>

StreamFails(s) ==
    /\ stream[s].pc = "reading"
    /\ reads < MaxReads
    /\ reads' = reads + 1
    /\ publishLocked("error", 0)
    /\ stream' = [stream EXCEPT ![s].pc = "closed"]
    /\ UNCHANGED <<process, out, slots, stdin, writer>>

-----------------------------------------------------------------------------
(* The process, a fence, and the exit goroutine.                           *)

ProcessEnds ==
    /\ process.alive
    /\ process' = [process EXCEPT !.alive = FALSE]
    /\ UNCHANGED <<stream, out, log, oldest, sub, slots, stdin, writer, reads>>

Fence ==
    /\ process.alive /\ process.reason # "fenced"
    /\ process' = [process EXCEPT !.reason = "fenced", !.alive = FALSE]
    /\ UNCHANGED <<stream, out, log, oldest, sub, slots, stdin, writer, reads>>

StreamsDone == \A s \in Streams : stream[s].pc = "closed"

\* After both streams and the process, the exit takes the gate, closes
\* standard input, and publishes the last event as the record turns terminal.
Exit ==
    /\ StreamsDone
    /\ ~process.alive /\ ~process.terminal
    /\ stdin.holder = {}
    /\ stdin' = [stdin EXCEPT !.closed = TRUE]
    /\ process' = [process EXCEPT !.terminal = TRUE]
    /\ publishLocked("exit", 0)
    /\ UNCHANGED <<stream, out, slots, writer, reads>>

-----------------------------------------------------------------------------
(* Attach.                                                                 *)

\* The cursor is not in the future and the replay still has what follows it.
CursorServed(after) ==
    /\ after <= Len(log)
    /\ IF oldest <= Len(log) THEN after >= oldest - 1 ELSE after = Len(log)

Copied(after) == [k \in 1 .. Len(log) - after |-> after + k]

Attach(a) ==
    /\ sub[a].state = "none"
    /\ slots < MaximumAttachments
    /\ slots' = slots + 1
    /\ \E after \in 0 .. Len(log) :
         /\ CursorServed(after)
         /\ sub' = [sub EXCEPT ![a] =
              [state |-> IF process.terminal THEN "finished" ELSE "open", after |-> after,
               queue |-> Copied(after), capacity |-> Len(log) - after + SubscriberBuffer,
               received |-> << >>, error |-> ""]]
    /\ UNCHANGED <<process, stream, out, log, oldest, stdin, writer, reads>>

Receive(a) ==
    /\ sub[a].state \in {"open", "finished"}
    /\ sub[a].queue # << >>
    /\ sub' = [sub EXCEPT ![a].received = Append(@, Head(sub[a].queue)), ![a].queue = Tail(@)]
    /\ UNCHANGED <<process, stream, out, log, oldest, slots, stdin, writer, reads>>

Released(a) == slots - 1

\* closeAttachment, by the reader at the end of its events.
CloseAtEnd(a) ==
    /\ sub[a].state = "finished"
    /\ sub[a].queue = << >>
    /\ sub' = [sub EXCEPT ![a].state = "released"]
    /\ slots' = Released(a)
    /\ UNCHANGED <<process, stream, out, log, oldest, stdin, writer, reads>>

\* closeAttachment by watchAttachment when the context ends: what is queued is lost.
CloseEarly(a) ==
    /\ sub[a].state \in {"open", "finished"}
    /\ sub' = [sub EXCEPT ![a] = [finishSubscriber(@, "canceled") EXCEPT
                                    !.queue = << >>, !.state = "released",
                                    !.error = IF sub[a].queue # << >> THEN "canceled" ELSE @]]
    /\ slots' = Released(a)
    /\ UNCHANGED <<process, stream, out, log, oldest, stdin, writer, reads>>

-----------------------------------------------------------------------------
(* Standard input.                                                         *)

WriteBegins(w) ==
    /\ writer[w] = "idle"
    /\ stdin.holder = {}
    /\ IF stdin.closed \/ process.terminal
         THEN writer' = [writer EXCEPT ![w] = "refused"] /\ UNCHANGED stdin
         ELSE /\ writer' = [writer EXCEPT ![w] = "writing"]
              /\ stdin' = [stdin EXCEPT !.holder = {w}]
    /\ UNCHANGED <<process, stream, out, log, oldest, sub, slots, reads>>

WriteSucceeds(w) ==
    /\ writer[w] = "writing"
    /\ process.alive
    /\ writer' = [writer EXCEPT ![w] = "written"]
    /\ stdin' = [stdin EXCEPT !.holder = {}, !.content = Append(@, <<w, "whole">>)]
    /\ UNCHANGED <<process, stream, out, log, oldest, sub, slots, reads>>

\* A prefix went out before the error: the pipe is closed with it.
ShortWrite(w) == [stdin EXCEPT !.holder = {}, !.closed = TRUE, !.content = Append(@, <<w, "part">>)]

WriteFails(w) ==
    /\ writer[w] = "writing"
    /\ writer' = [writer EXCEPT ![w] = "failed"]
    /\ stdin' = ShortWrite(w)
    /\ UNCHANGED <<process, stream, out, log, oldest, sub, slots, reads>>

CloseStdin(w) ==
    /\ writer[w] = "idle"
    /\ stdin.holder = {}
    /\ writer' = [writer EXCEPT ![w] = "closer"]
    /\ stdin' = [stdin EXCEPT !.closed = TRUE]
    /\ UNCHANGED <<process, stream, out, log, oldest, sub, slots, reads>>

-----------------------------------------------------------------------------
StreamStep(s) == PublishOutput(s) \/ OverLimit(s) \/ StreamEnds(s)
WriteEnds(w) == WriteSucceeds(w) \/ WriteFails(w)

Next ==
    \/ \E s \in Streams : Read(s) \/ StreamStep(s) \/ StreamFails(s)
    \/ ProcessEnds \/ Fence \/ Exit
    \/ \E a \in Readers : Attach(a) \/ Receive(a) \/ CloseAtEnd(a) \/ CloseEarly(a)
    \/ \E w \in Writers : WriteBegins(w) \/ WriteEnds(w) \/ CloseStdin(w)

Spec == Init /\ [][Next]_vars

-----------------------------------------------------------------------------
(* Properties.                                                             *)

\* What an attachment received and has queued is the log from its cursor on,
\* without a gap, a repetition or a change of order, whatever was published
\* while it attached and however slowly it reads.
NoGaps ==
    \A a \in Readers : LET got == sub[a].received \o sub[a].queue IN
        got = [k \in 1 .. Len(got) |-> sub[a].after + k]

\* An attachment that ends without an error has seen the exit of the process.
CleanEndIsExit ==
    \A a \in Readers :
        sub[a].state \in {"finished", "released"} /\ sub[a].error = "" =>
            LET got == sub[a].received \o sub[a].queue IN
            sub[a].after + Len(got) = Len(log) /\ log[Len(log)].type = "exit"

\* The exit is the last event: no output is published after it.
ExitIsLast == \A k \in 1 .. Len(log) - 1 : log[k].type # "exit"

\* Both streams together never publish more than the output limit.
WithinOutputLimit == Bytes(log) <= OutputLimit

\* Output was cut, and the result says so, or names a fence, which is stronger.
TruncationReported ==
    process.terminal /\ (\E s \in Streams : stream[s].accepted < stream[s].count)
        => process.reason \in {"output_limit", "fenced"}

\* A slot is taken exactly while an attachment may hold copied events.
SlotsMatch ==
    slots = Cardinality({a \in Readers : sub[a].state \in {"open", "finished"}})

\* Standard input carries whole writes, and at most one partial one, the last.
StdinIsWhole ==
    \A k \in 1 .. Len(stdin.content) - 1 : stdin.content[k][2] = "whole"
=============================================================================
