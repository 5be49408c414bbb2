------------------------------- MODULE Audit --------------------------------
(***************************************************************************)
(* The audit log and the shutdown that has to flush it: calls are observed *)
(* as they end (Sink.Observe), one goroutine writes the rows of a bounded  *)
(* channel (Sink.writer), Retention prunes, and main shuts down: the HTTP  *)
(* drain, then its deferred sup.Stop, sink.Close and store.Close.          *)
(*                                                                         *)
(* A step is a channel operation, a statement of the store, or the return  *)
(* of a blocking call.  The contents of a row are left out.                *)
(***************************************************************************)
EXTENDS Naturals, Sequences, FiniteSets

CONSTANTS
    Calls,          \* bound: the tool calls made
    BufferSize      \* SinkOptions.BufferSize

None == "none"

ASSUME AuditAssumption == BufferSize \in Nat \ {0} /\ None \notin Calls

VARIABLES
    main,       \* where run (cmd/gateway/main.go) is
    call,       \* what has become of each call and of its row
    ch,         \* Sink.ch: the calls whose rows are buffered
    chClosed,   \* Sink.ch is closed
    writer,     \* the row the writer goroutine is inserting
    writing,    \* the writer goroutine runs (Sink.wg)
    serving     \* the HTTP server hands on requests

sink == <<ch, chClosed, writer, writing>>
vars == <<main, call, ch, chClosed, writer, writing, serving>>

Fates == {"new", "running", "returned", "buffered", "inserting", "stored", "failed", "dropped",
          "pruned"}

TypeOK ==
    /\ main \in {"serve", "drain", "stop", "close", "flush", "store", "exit", "crashed"}
    /\ call \in [Calls -> Fates]
    /\ ch \in Seq(Calls) /\ Len(ch) <= BufferSize
    /\ chClosed \in BOOLEAN /\ writing \in BOOLEAN /\ serving \in BOOLEAN
    /\ writer \in Calls \cup {None}

Init ==
    /\ main = "serve"
    /\ call = [c \in Calls |-> "new"]
    /\ ch = <<>> /\ chClosed = FALSE
    /\ writer = None /\ writing = TRUE /\ serving = TRUE

Alive == main \notin {"exit", "crashed"}

-----------------------------------------------------------------------------
(* Calls, and Observe *)

CallStarts(c) ==
    /\ Alive /\ serving /\ call[c] = "new"
    /\ call' = [call EXCEPT ![c] = "running"]
    /\ UNCHANGED <<main, sink, serving>>

\* dispatch returns: the upstream has answered, or its deadline has passed, or
\* sup.Stop has closed its session.
CallReturns(c) ==
    /\ Alive /\ call[c] = "running"
    /\ call' = [call EXCEPT ![c] = "returned"]
    /\ UNCHANGED <<main, sink, serving>>

\* Faulty variant: a full buffer makes the call wait.
Observe_Blocks(c) ==
    /\ Alive /\ call[c] = "returned" /\ ~chClosed
    /\ Len(ch) < BufferSize
    /\ ch' = Append(ch, c)
    /\ call' = [call EXCEPT ![c] = "buffered"]
    /\ UNCHANGED <<main, chClosed, writer, writing, serving>>

\* Faulty variant: one row more than the buffer holds.
Observe_OneTooMany(c) ==
    /\ Alive /\ call[c] = "returned" /\ ~chClosed
    /\ IF Len(ch) <= BufferSize
       THEN ch' = Append(ch, c) /\ call' = [call EXCEPT ![c] = "buffered"]
       ELSE call' = [call EXCEPT ![c] = "dropped"] /\ UNCHANGED ch
    /\ UNCHANGED <<main, chClosed, writer, writing, serving>>

\* A send on the closed channel panics, and with it the process.
Observe(c) ==
    /\ Alive /\ call[c] = "returned"
    /\ IF chClosed
       THEN main' = "crashed" /\ UNCHANGED <<call, ch>>
       ELSE /\ UNCHANGED main
            /\ IF Len(ch) < BufferSize
               THEN ch' = Append(ch, c) /\ call' = [call EXCEPT ![c] = "buffered"]
               ELSE call' = [call EXCEPT ![c] = "dropped"] /\ UNCHANGED ch
    /\ UNCHANGED <<chClosed, writer, writing, serving>>

-----------------------------------------------------------------------------
(* The writer and retention *)

Receive ==
    /\ Alive /\ writing /\ writer = None /\ ch # <<>>
    /\ writer' = Head(ch) /\ ch' = Tail(ch)
    /\ call' = [call EXCEPT ![Head(ch)] = "inserting"]
    /\ UNCHANGED <<main, chClosed, writing, serving>>

\* An error of the insert is only logged.
Insert ==
    /\ Alive /\ writer # None
    /\ \E fate \in {"stored", "failed"} : call' = [call EXCEPT ![writer] = fate]
    /\ writer' = None
    /\ UNCHANGED <<main, ch, chClosed, writing, serving>>

\* Faulty variant: the writer stops as soon as the channel is closed.
WriterEnds_AtClose ==
    /\ Alive /\ writing /\ writer = None /\ chClosed
    /\ writing' = FALSE
    /\ UNCHANGED <<main, call, ch, chClosed, writer, serving>>

\* The range over the channel ends once it is closed and empty.
WriterEnds ==
    /\ Alive /\ writing /\ writer = None /\ ch = <<>> /\ chClosed
    /\ writing' = FALSE
    /\ UNCHANGED <<main, call, ch, chClosed, writer, serving>>

\* Retention deletes old rows; its context ends with the signal, or when run has
\* returned.
Prune ==
    /\ Alive /\ serving
    /\ \E c \in Calls : call[c] = "stored" /\ call' = [call EXCEPT ![c] = "pruned"]
    /\ UNCHANGED <<main, sink, serving>>

-----------------------------------------------------------------------------
(* main: shutdown *)

Signal ==
    /\ main = "serve"
    /\ main' = "drain" /\ serving' = FALSE
    /\ UNCHANGED <<call, sink>>

\* ListenAndServe fails: run returns without a drain, and the connections that are open
\* go on.
ListenFails ==
    /\ main = "serve"
    /\ main' = "stop"
    /\ UNCHANGED <<call, sink, serving>>

\* srv.Shutdown returns: the requests are done, or its 15 seconds have passed.
Drained ==
    /\ main = "drain"
    /\ main' = "stop"
    /\ UNCHANGED <<call, sink, serving>>

\* sup.Stop returns, which nothing bounds: see Supervisor's StopEnds.
Stopped ==
    /\ main = "stop"
    /\ main' = "close"
    /\ UNCHANGED <<call, sink, serving>>

\* Faulty variant: the channel stays open.
Close_KeepsOpen ==
    /\ main = "close"
    /\ main' = "flush"
    /\ UNCHANGED <<call, sink, serving>>

Close ==
    /\ main = "close"
    /\ chClosed' = TRUE
    /\ main' = "flush"
    /\ UNCHANGED <<call, ch, writer, writing, serving>>

\* Faulty variant: Close does not wait for the writer.
Flushed_NoWait ==
    /\ main = "flush"
    /\ main' = "store"
    /\ UNCHANGED <<call, sink, serving>>

\* wg.Wait returns.
Flushed ==
    /\ main = "flush" /\ ~writing
    /\ main' = "store"
    /\ UNCHANGED <<call, sink, serving>>

\* The last of run's deferred calls: main returns, and the process ends.
CloseStore ==
    /\ main = "store"
    /\ main' = "exit"
    /\ UNCHANGED <<call, sink, serving>>

-----------------------------------------------------------------------------
Shutdown ==
    \/ Signal \/ ListenFails \/ Drained \/ Stopped \/ Close \/ Flushed \/ CloseStore

\* Everything but the statements that change the table.
OffTable ==
    \/ \E c \in Calls : CallStarts(c) \/ CallReturns(c) \/ Observe(c)
    \/ Receive \/ WriterEnds
    \/ Shutdown

Next == OffTable \/ Insert \/ Prune

Spec == Init /\ [][Next]_vars

\* main goes on once a signal has come, and a handler whose call has returned does.
\* Nothing makes a signal come or a call return, and nothing here says that the
\* writer goes on or that sup.Stop returns.
MainFairness ==
    /\ WF_vars(Drained) /\ WF_vars(Close) /\ WF_vars(Flushed) /\ WF_vars(CloseStore)
    /\ \A c \in Calls : WF_vars(Observe(c))

\* The run loops end: no request of theirs blocks (Supervisor's RequestsReturn).
StopFairness == WF_vars(Stopped)

\* An insert returns, with an error after busy_timeout.
WriterFairness == WF_vars(Receive) /\ WF_vars(Insert) /\ WF_vars(WriterEnds)

-----------------------------------------------------------------------------
(* Properties *)

\* "Close flushes buffered rows": when the store is closed no row that Observe has
\* accepted is still in the channel or with the writer, whatever calls end meanwhile.
FlushedAtExit ==
    main = "exit" => \A c \in Calls : call[c] \notin {"buffered", "inserting"}

\* The writer's row is the oldest of those accepted and not yet written.
Pending == IF writer = None THEN ch ELSE <<writer>> \o ch

RowFate(c) ==
    CASE call[c] \in {"new", "running", "returned"} -> "none"
      [] call[c] \in {"buffered", "inserting"} -> "accepted"
      [] OTHER -> call[c]

Queue == INSTANCE AuditQueue WITH
    Room <- BufferSize, rows <- Pending, fate <- [c \in Calls |-> RowFate(c)],
    stage <- IF main = "exit" THEN "over" ELSE IF chClosed THEN "closed" ELSE "open"

\* Channel, writer and shutdown work as a queue: rows are written in the order they were
\* accepted, none of them is lost, none is dropped while there is room, and the log
\* is over only when all are written, unless the process dies.
KeepsQueue == Queue!Spec

\* Shutdown ends, after a signal and after a listen error, however many rows are
\* buffered and whatever requests are still under way, provided that the writer goes
\* on and that sup.Stop returns.
ShutdownEnds ==
    WriterFairness /\ StopFairness => (main \in {"drain", "stop"} ~> ~Alive)

\* "Audit I/O never blocks a tool call": a call is done with Observe whatever the
\* writer is doing, although it may be stuck in an insert for ever.
NeverBlocks == \A c \in Calls : call[c] = "returned" ~> call[c] # "returned" \/ ~Alive

\* "Observe must not be called after Close."
NoObserveAfterClose == main # "crashed"
=============================================================================
