----------------------------- MODULE AuditProofs -----------------------------
(***************************************************************************)
(* Proofs about Audit, for any number of calls and any buffer: the store   *)
(* is closed only when every accepted row has left the channel and the     *)
(* writer.  The inductive invariant says where an accepted row is          *)
(* (RowsHeld) and what the end of the writer (WriterGone) and the progress *)
(* of main (Progress) imply.                                               *)
(***************************************************************************)
EXTENDS Audit, TLAPS

\* A buffered row is in the channel, a row being inserted is the writer's.
RowsHeld ==
    \A c \in Calls :
        /\ call[c] = "buffered" => \E i \in 1..Len(ch) : ch[i] = c
        /\ call[c] = "inserting" => writer = c

\* The writer ends with nothing left, and nothing can be added any more.
WriterGone == ~writing => ch = <<>> /\ writer = None /\ chClosed

Progress ==
    /\ chClosed <=> main \in {"flush", "store", "exit", "crashed"}
    /\ main \in {"store", "exit"} => ~writing

IInv == TypeOK /\ RowsHeld /\ WriterGone /\ Progress

-----------------------------------------------------------------------------

\* The invariant holds when the sink and its writer have been started.
LEMMA InitInv == Init => IInv
<1>1. SUFFICES ASSUME Init
               PROVE  IInv
  OBVIOUS
<1>2. ch \in Seq(Calls) /\ Len(ch) = 0 /\ 0 <= BufferSize
  BY <1>1, AuditAssumption DEF Init
<1>3. TypeOK
  BY <1>1, <1>2, AuditAssumption DEF Init, TypeOK, Fates
<1>4. RowsHeld /\ WriterGone /\ Progress
  BY <1>1 DEF Init, RowsHeld, WriterGone, Progress
<1>5. QED
  BY <1>3, <1>4 DEF IInv

\* Steps of main and of calls that leave the channel and the rows alone.
LEMMA QuietSteps ==
    ASSUME IInv,
           \/ \E c \in Calls : CallStarts(c) \/ CallReturns(c)
           \/ Prune \/ Shutdown \/ WriterEnds \/ UNCHANGED vars
    PROVE  IInv'
<1> USE DEF IInv, TypeOK, RowsHeld, WriterGone, Progress, Fates, sink, Alive
<1>1. ASSUME NEW c \in Calls, CallStarts(c)
      PROVE  IInv'
  BY <1>1 DEF CallStarts
<1>2. ASSUME NEW c \in Calls, CallReturns(c)
      PROVE  IInv'
  BY <1>2 DEF CallReturns
<1>3. CASE Prune
  BY <1>3 DEF Prune
<1>4. CASE Shutdown
  <2>1. CASE Signal
    <3>1. serving' \in BOOLEAN
      BY <2>1, Zenon DEF Signal
    <3>2. QED
      BY <2>1, <3>1 DEF Signal
  <2>2. CASE ListenFails \/ Drained \/ Stopped
    BY <2>2 DEF ListenFails, Drained, Stopped
  <2>3. CASE Close
    BY <2>3 DEF Close
  <2>4. CASE Flushed
    BY <2>4 DEF Flushed
  <2>5. CASE CloseStore
    BY <2>5 DEF CloseStore
  <2>6. QED
    BY <1>4, <2>1, <2>2, <2>3, <2>4, <2>5 DEF Shutdown
<1>5. CASE WriterEnds
  BY <1>5 DEF WriterEnds
<1>6. CASE UNCHANGED vars
  BY <1>6 DEF vars
<1>7. QED
  BY <1>1, <1>2, <1>3, <1>4, <1>5, <1>6

\* A row is appended, dropped, or the send on the closed channel panics.
LEMMA ObserveStep ==
    ASSUME IInv, NEW c \in Calls, Observe(c)
    PROVE  IInv'
<1> USE DEF IInv, TypeOK, WriterGone, Progress, Fates, Alive
<1>1. CASE chClosed
  BY <1>1 DEF Observe, RowsHeld
<1>2. CASE ~chClosed /\ Len(ch) < BufferSize
  <2>1. /\ ch' = Append(ch, c) /\ call' = [call EXCEPT ![c] = "buffered"]
        /\ UNCHANGED <<main, chClosed, writer, writing, serving>>
    BY <1>2 DEF Observe
  <2>2. ch' \in Seq(Calls) /\ Len(ch') = Len(ch) + 1 /\ ch'[Len(ch) + 1] = c
    BY <2>1
  <2>3. \A i \in 1..Len(ch) : ch'[i] = ch[i]
    BY <2>1
  <2>4. Len(ch') <= BufferSize
    BY <1>2, <2>2, AuditAssumption
  <2>5. ASSUME NEW d \in Calls, call'[d] = "buffered"
        PROVE  \E i \in 1..Len(ch') : ch'[i] = d
    <3>1. CASE d = c
      BY <2>2, <3>1
    <3>2. CASE d # c
      <4>1. PICK i \in 1..Len(ch) : ch[i] = d
        BY <2>1, <2>5, <3>2 DEF RowsHeld
      <4>2. i \in 1..Len(ch') /\ ch'[i] = d
        BY <2>2, <2>3, <4>1
      <4>3. QED
        BY <4>2
    <3>3. QED
      BY <3>1, <3>2
  <2>6. \A d \in Calls : call'[d] = "inserting" => writer' = d
    BY <2>1 DEF RowsHeld
  <2>7. TypeOK'
    BY <2>1, <2>2, <2>4
  <2>8. QED
    BY <1>2, <2>1, <2>5, <2>6, <2>7 DEF RowsHeld
<1>3. CASE ~chClosed /\ ~(Len(ch) < BufferSize)
  BY <1>3 DEF Observe, RowsHeld
<1>4. QED
  BY <1>1, <1>2, <1>3

\* The head of the channel becomes the writer's row.
LEMMA ReceiveStep ==
    ASSUME IInv, Receive
    PROVE  IInv'
<1> USE DEF IInv, TypeOK, WriterGone, Progress, Fates, Alive
<1>1. /\ writing /\ writer = None /\ ch # <<>>
      /\ writer' = Head(ch) /\ ch' = Tail(ch)
      /\ call' = [call EXCEPT ![Head(ch)] = "inserting"]
      /\ UNCHANGED <<main, chClosed, writing, serving>>
  BY DEF Receive
<1>2. /\ Head(ch) \in Calls /\ Head(ch) = ch[1]
      /\ Tail(ch) \in Seq(Calls) /\ Len(Tail(ch)) = Len(ch) - 1
      /\ \A i \in 1..Len(ch) - 1 : Tail(ch)[i] = ch[i + 1]
  BY <1>1
<1>3. ASSUME NEW d \in Calls, call'[d] = "buffered"
      PROVE  \E i \in 1..Len(ch') : ch'[i] = d
  <2>1. d # Head(ch) /\ call[d] = "buffered"
    BY <1>1, <1>2, <1>3
  <2>2. PICK i \in 1..Len(ch) : ch[i] = d
    BY <2>1 DEF RowsHeld
  <2>3. i - 1 \in 1..Len(ch') /\ ch'[i - 1] = d
    BY <1>1, <1>2, <2>1, <2>2
  <2>4. QED
    BY <2>3
<1>4. \A d \in Calls : call'[d] = "inserting" => writer' = d
  BY <1>1, <1>2, AuditAssumption DEF RowsHeld
<1>5. TypeOK'
  BY <1>1, <1>2, AuditAssumption
<1>6. QED
  BY <1>1, <1>3, <1>4, <1>5 DEF RowsHeld

\* The writer's row is stored, or its insert has failed.
LEMMA InsertStep ==
    ASSUME IInv, Insert
    PROVE  IInv'
<1> USE DEF IInv, TypeOK, WriterGone, Progress, Fates, Alive
<1>1. PICK fate \in {"stored", "failed"} : call' = [call EXCEPT ![writer] = fate]
  BY DEF Insert
<1>2. /\ writer \in Calls /\ writer' = None
      /\ UNCHANGED <<main, ch, chClosed, writing, serving>>
  BY DEF Insert
<1>3. RowsHeld'
  BY <1>1, <1>2 DEF RowsHeld
<1>4. TypeOK'
  BY <1>1, <1>2
<1>5. QED
  BY <1>2, <1>3, <1>4

\* What a process with an audit log keeps up until it exits.
THEOREM Invariance == Spec => []IInv
<1>1. Init => IInv
  BY InitInv
<1>2. IInv /\ [Next]_vars => IInv'
  BY QuietSteps, ObserveStep, ReceiveStep, InsertStep DEF Next, OffTable
<1>3. QED
  BY <1>1, <1>2, PTL DEF Spec

\* Every variable of the audit log keeps its type, for any buffer.
THEOREM TypeCorrect == Spec => []TypeOK
<1>1. IInv => TypeOK
  BY DEF IInv
<1>2. QED
  BY <1>1, Invariance, PTL

\* sink.Close before store.Close: no accepted row is left behind when the store is
\* closed, whatever calls end while main shuts down.
THEOREM RowsFlushed == Spec => []FlushedAtExit
<1>1. IInv => FlushedAtExit
  <2>1. SUFFICES ASSUME IInv, main = "exit", NEW c \in Calls
                 PROVE  call[c] \notin {"buffered", "inserting"}
    BY DEF FlushedAtExit
  <2>2. ch = <<>> /\ writer = None
    BY <2>1 DEF IInv, Progress, WriterGone
  <2>3. QED
    BY <2>1, <2>2, AuditAssumption DEF IInv, RowsHeld
<1>2. QED
  BY <1>1, Invariance, PTL

-----------------------------------------------------------------------------
(* The queue *)

\* A call is in the channel once, and neither there nor with the writer once it has
\* been stored.
Held ==
    /\ \A i \in 1..Len(ch) : call[ch[i]] = "buffered"
    /\ \A i, j \in 1..Len(ch) : ch[i] = ch[j] => i = j
    /\ writer # None => call[writer] = "inserting"

\* The steps of calls and of main that leave the channel alone.
LEMMA QuietHeld ==
    ASSUME IInv, Held,
           \/ \E c \in Calls : CallStarts(c) \/ CallReturns(c)
           \/ Shutdown \/ WriterEnds \/ UNCHANGED vars
    PROVE  /\ Held'
           /\ \A c \in Calls : call[c] \in {"stored", "pruned"} => call'[c] = call[c]
<1>1. ch \in Seq(Calls) /\ call \in [Calls -> Fates] /\ writer \in Calls \cup {None}
    BY DEF IInv, TypeOK
<1>2. \A i \in 1..Len(ch) : ch[i] \in Calls
    BY <1>1
<1>3. UNCHANGED <<ch, writer>>
    BY DEF CallStarts, CallReturns, Shutdown, Signal, ListenFails, Drained, Stopped, Close,
           Flushed, CloseStore, WriterEnds, vars, sink
<1>4. \/ UNCHANGED call
      \/ \E c \in Calls : /\ call[c] \in {"new", "running"}
                          /\ \A d \in Calls \ {c} : call'[d] = call[d]
    BY <1>1 DEF CallStarts, CallReturns, Shutdown, Signal, ListenFails, Drained, Stopped,
                Close, Flushed, CloseStore, WriterEnds, vars, sink
<1>5. CASE UNCHANGED call
    BY <1>3, <1>5 DEF Held
<1>6. ASSUME NEW c \in Calls, call[c] \in {"new", "running"},
             \A d \in Calls \ {c} : call'[d] = call[d]
      PROVE  /\ Held'
             /\ \A d \in Calls : call[d] \in {"stored", "pruned"} => call'[d] = call[d]
    <2>1. \A i \in 1..Len(ch) : call'[ch[i]] = "buffered"
        BY <1>2, <1>6 DEF Held
    <2>2. writer # None => call'[writer] = "inserting"
        BY <1>1, <1>6 DEF Held
    <2> QED
        BY <1>3, <1>6, <2>1, <2>2 DEF Held
<1> QED
    BY <1>4, <1>5, <1>6

\* A call that ends is not in the channel yet.
LEMMA ObserveHeld ==
    ASSUME IInv, Held, NEW c \in Calls, Observe(c)
    PROVE  /\ Held'
           /\ \A d \in Calls : call[d] \in {"stored", "pruned"} => call'[d] = call[d]
<1>1. /\ ch \in Seq(Calls) /\ call \in [Calls -> Fates] /\ writer \in Calls \cup {None}
      /\ call[c] = "returned" /\ writer' = writer
    BY DEF IInv, TypeOK, Observe
<1>2. \A i \in 1..Len(ch) : ch[i] \in Calls /\ ch[i] # c
    BY <1>1 DEF Held
<1>3. writer # None => writer # c
    BY <1>1 DEF Held
<1>4. CASE UNCHANGED <<call, ch>>
    BY <1>1, <1>4 DEF Held
<1>5. CASE UNCHANGED ch /\ call' = [call EXCEPT ![c] = "dropped"]
    BY <1>1, <1>2, <1>3, <1>5 DEF Held
<1>6. CASE ch' = Append(ch, c) /\ call' = [call EXCEPT ![c] = "buffered"]
    <2>1. /\ Len(ch') = Len(ch) + 1 /\ ch'[Len(ch) + 1] = c /\ Len(ch) \in Nat
          /\ \A i \in 1..Len(ch) : ch'[i] = ch[i]
        BY <1>1, <1>6
    <2>2. \A i \in 1..Len(ch') : i \in 1..Len(ch) \/ i = Len(ch) + 1
        BY <2>1
    <2>3. \A i \in 1..Len(ch') : call'[ch'[i]] = "buffered"
        BY <1>1, <1>2, <1>6, <2>1, <2>2 DEF Held
    <2>4. \A i, j \in 1..Len(ch') : ch'[i] = ch'[j] => i = j
        BY <1>2, <2>1, <2>2 DEF Held
    <2>5. writer' # None => call'[writer'] = "inserting"
        BY <1>1, <1>3, <1>6 DEF Held
    <2>6. \A d \in Calls : call[d] \in {"stored", "pruned"} => call'[d] = call[d]
        BY <1>1, <1>6
    <2> QED
        BY <2>3, <2>4, <2>5, <2>6 DEF Held
<1> QED
    BY <1>4, <1>5, <1>6 DEF Observe

\* The writer's row has left the channel.
LEMMA ReceiveHeld ==
    ASSUME IInv, Held, Receive
    PROVE  /\ Held'
           /\ \A d \in Calls : call[d] \in {"stored", "pruned"} => call'[d] = call[d]
<1>1. /\ ch \in Seq(Calls) /\ call \in [Calls -> Fates] /\ ch # <<>>
      /\ writer' = Head(ch) /\ ch' = Tail(ch)
      /\ call' = [call EXCEPT ![Head(ch)] = "inserting"]
    BY DEF IInv, TypeOK, Receive
<1>2. /\ Head(ch) \in Calls /\ Head(ch) = ch[1] /\ Len(ch) \in Nat /\ 1 \in 1..Len(ch)
      /\ Len(ch') = Len(ch) - 1
      /\ \A i \in 1..Len(ch') : i + 1 \in 1..Len(ch) /\ ch'[i] = ch[i + 1]
    BY <1>1
<1>3. ASSUME NEW i \in 1..Len(ch')
      PROVE  call'[ch'[i]] = "buffered"
    <2>1. i + 1 \in 1..Len(ch) /\ i + 1 # 1 /\ ch'[i] = ch[i + 1]
        BY <1>2
    <2>2. ch[i + 1] # ch[1] /\ ch[i + 1] \in Calls /\ call[ch[i + 1]] = "buffered"
        BY <1>1, <1>2, <2>1 DEF Held
    <2> QED
        BY <1>1, <1>2, <2>1, <2>2
<1>4. ASSUME NEW i \in 1..Len(ch'), NEW j \in 1..Len(ch'), ch'[i] = ch'[j]
      PROVE  i = j
    <2>1. i + 1 = j + 1
        BY <1>2, <1>4 DEF Held
    <2> QED
        BY <2>1
<1>5. call'[writer'] = "inserting"
    BY <1>1, <1>2
<1>6. call[Head(ch)] = "buffered"
    BY <1>2 DEF Held
<1> QED
    BY <1>1, <1>2, <1>3, <1>4, <1>5, <1>6 DEF Held

\* A row that leaves the writer or the table is not in the channel.
LEMMA TableHeld ==
    ASSUME IInv, Held, Insert \/ Prune
    PROVE  Held'
<1>1. ch \in Seq(Calls) /\ call \in [Calls -> Fates] /\ writer \in Calls \cup {None}
    BY DEF IInv, TypeOK
<1>2. \A i \in 1..Len(ch) : ch[i] \in Calls
    BY <1>1
<1>3. CASE Insert
    <2>1. PICK fate \in {"stored", "failed"} : call' = [call EXCEPT ![writer] = fate]
        BY <1>3 DEF Insert
    <2>2. writer \in Calls /\ call[writer] = "inserting" /\ writer' = None /\ ch' = ch
        BY <1>1, <1>3 DEF Insert, Held
    <2>3. \A i \in 1..Len(ch) : ch[i] # writer
        BY <2>2 DEF Held
    <2> QED
        BY <1>1, <1>2, <2>1, <2>2, <2>3 DEF Held
<1>4. CASE Prune
    <2>1. PICK c \in Calls : call[c] = "stored" /\ call' = [call EXCEPT ![c] = "pruned"]
        BY <1>4 DEF Prune
    <2>2. ch' = ch /\ writer' = writer
        BY <1>4 DEF Prune, sink
    <2>3. \A i \in 1..Len(ch) : ch[i] # c
        BY <2>1 DEF Held
    <2> QED
        BY <1>1, <1>2, <2>1, <2>2, <2>3 DEF Held
<1> QED
    BY <1>3, <1>4

LEMMA StepHeld ==
    ASSUME IInv, Held, [Next]_vars
    PROVE  Held'
BY QuietHeld, ObserveHeld, ReceiveHeld, TableHeld DEF Next, OffTable

\* The stage and the fates that Queue sees.
Stage == IF main = "exit" THEN "over" ELSE IF chClosed THEN "closed" ELSE "open"
RowFates == [c \in Calls |-> RowFate(c)]

LEMMA QueueStays ==
    ASSUME Pending' = Pending, RowFates' = RowFates, Stage' = Stage
    PROVE  UNCHANGED Queue!vars
BY DEF Queue!vars, RowFates, Stage

\* Nothing about the rows is changed by a call that starts or returns, nor by main
\* before it closes the sink and while it waits.
LEMMA QuietQueue ==
    ASSUME IInv,
           \/ \E c \in Calls : CallStarts(c) \/ CallReturns(c)
           \/ Signal \/ ListenFails \/ Drained \/ Stopped \/ Flushed \/ WriterEnds
           \/ UNCHANGED vars
    PROVE  UNCHANGED Queue!vars
<1>1. UNCHANGED <<ch, writer, chClosed>>
  BY DEF CallStarts, CallReturns, Signal, ListenFails, Drained, Stopped, Flushed, WriterEnds,
         vars, sink
<1>2. Pending' = Pending
  BY <1>1 DEF Pending
<1>3. main' = "exit" <=> main = "exit"
  BY DEF CallStarts, CallReturns, Signal, ListenFails, Drained, Stopped, Flushed, WriterEnds,
         vars, sink
<1>4. \/ call' = call
      \/ \E c \in Calls, place \in {"running", "returned"} :
            call[c] \in {"new", "running"} /\ call' = [call EXCEPT ![c] = place]
  BY DEF CallStarts, CallReturns, Signal, ListenFails, Drained, Stopped, Flushed, WriterEnds,
         vars, sink
<1>5. RowFates' = RowFates
  BY <1>4 DEF RowFates, RowFate, IInv, TypeOK
<1>6. QED
  BY <1>1, <1>2, <1>3, <1>5, QueueStays DEF Stage

\* A send into the channel, or a drop, or the end of the process.
LEMMA ObserveQueue ==
    ASSUME IInv, NEW c \in Calls, Observe(c)
    PROVE  [Queue!Next]_(Queue!vars)
<1>1. /\ ch \in Seq(Calls) /\ call \in [Calls -> Fates] /\ writer \in Calls \cup {None}
      /\ Len(ch) <= BufferSize /\ BufferSize \in Nat
  BY AuditAssumption DEF IInv, TypeOK
<1>2. /\ call[c] = "returned" /\ main \notin {"exit", "crashed"}
      /\ UNCHANGED <<chClosed, writer>>
  BY DEF Observe, Alive
<1>3. CASE chClosed
  <2>1. main' = "crashed" /\ UNCHANGED <<call, ch>>
    BY <1>3 DEF Observe
  <2>2. QED
    BY <1>2, <2>1, QueueStays DEF Stage, RowFates, RowFate, Pending
<1>4. CASE ~chClosed
  <2>1. RowFates[c] = "none" /\ Stage = "open" /\ Stage' = "open"
    BY <1>2, <1>4 DEF Observe, RowFates, RowFate, Stage
  <2>2. Pending \in Seq(Calls) /\ Len(Pending) \in {Len(ch), Len(ch) + 1}
    BY <1>1 DEF Pending
  <2>3. CASE Len(ch) < BufferSize
    <3>1. ch' = Append(ch, c) /\ call' = [call EXCEPT ![c] = "buffered"]
      BY <1>4, <2>3 DEF Observe
    <3>2. Pending' = Append(Pending, c)
      BY <1>1, <1>2, <3>1 DEF Pending
    <3>3. RowFates' = [RowFates EXCEPT ![c] = "accepted"]
      BY <1>1, <3>1 DEF RowFates, RowFate
    <3>4. Len(Pending) <= BufferSize
      BY <1>1, <2>2, <2>3
    <3>5. Queue!Accept(c)
      BY <2>1, <3>2, <3>3, <3>4 DEF Queue!Accept, RowFates, Stage
    <3>6. QED
      BY <3>5 DEF Queue!Next
  <2>4. CASE ~(Len(ch) < BufferSize)
    <3>1. ch' = ch /\ call' = [call EXCEPT ![c] = "dropped"]
      BY <1>4, <2>4 DEF Observe
    <3>2. Pending' = Pending
      BY <1>2, <3>1 DEF Pending
    <3>3. RowFates' = [RowFates EXCEPT ![c] = "dropped"]
      BY <1>1, <3>1 DEF RowFates, RowFate
    <3>4. Len(Pending) >= BufferSize
      BY <1>1, <2>2, <2>4
    <3>5. Queue!Drop(c)
      BY <2>1, <3>2, <3>3, <3>4 DEF Queue!Drop, RowFates, Stage
    <3>6. QED
      BY <3>5 DEF Queue!Next
  <2>5. QED
    BY <2>3, <2>4
<1>5. QED
  BY <1>3, <1>4

\* The row the writer receives stays the oldest.
LEMMA ReceiveQueue ==
    ASSUME IInv, Held, Receive
    PROVE  UNCHANGED Queue!vars
<1>1. /\ ch \in Seq(Calls) /\ call \in [Calls -> Fates] /\ ch # <<>>
      /\ writer = None /\ writer' = Head(ch) /\ ch' = Tail(ch)
      /\ call' = [call EXCEPT ![Head(ch)] = "inserting"]
      /\ UNCHANGED <<main, chClosed>>
  BY DEF IInv, TypeOK, Receive
<1>2. Head(ch) \in Calls /\ call[Head(ch)] = "buffered" /\ <<Head(ch)>> \o Tail(ch) = ch
  <2>1. Len(ch) \in Nat /\ 1 \in 1..Len(ch) /\ Head(ch) = ch[1] /\ Head(ch) \in Calls
    BY <1>1
  <2>2. call[Head(ch)] = "buffered"
    BY <2>1 DEF Held
  <2>3. <<Head(ch)>> \o Tail(ch) = ch
    BY <1>1
  <2>4. QED
    BY <2>1, <2>2, <2>3
<1>3. Pending' = Pending
  BY <1>1, <1>2, AuditAssumption DEF Pending
<1>4. RowFates' = RowFates
  BY <1>1, <1>2 DEF RowFates, RowFate
<1>5. QED
  BY <1>1, <1>3, <1>4, QueueStays DEF Stage

\* The insert of the oldest row returns.
LEMMA InsertQueue ==
    ASSUME IInv, Insert
    PROVE  Queue!Next
<1>1. PICK fate \in {"stored", "failed"} : call' = [call EXCEPT ![writer] = fate]
  BY DEF Insert
<1>2. /\ ch \in Seq(Calls) /\ call \in [Calls -> Fates]
      /\ writer \in Calls /\ writer' = None /\ UNCHANGED <<main, ch, chClosed>>
  BY DEF IInv, TypeOK, Insert
<1>3. /\ Pending # <<>> /\ Pending' = Tail(Pending) /\ Head(Pending) = writer
  BY <1>2, AuditAssumption DEF Pending
<1>4. RowFates' = [RowFates EXCEPT ![writer] = fate]
  BY <1>1, <1>2 DEF RowFates, RowFate
<1>5. Queue!Write(fate)
  BY <1>2, <1>3, <1>4 DEF Queue!Write, RowFates
<1>6. QED
  BY <1>5 DEF Queue!Next

LEMMA PruneQueue ==
    ASSUME IInv, Prune
    PROVE  Queue!Next
<1>1. PICK c \in Calls : call[c] = "stored" /\ call' = [call EXCEPT ![c] = "pruned"]
  BY DEF Prune
<1>2. /\ call \in [Calls -> Fates] /\ main # "exit"
      /\ UNCHANGED <<main, ch, chClosed, writer>>
  BY DEF IInv, TypeOK, Prune, Alive, sink
<1>3. RowFates[c] = "stored" /\ RowFates' = [RowFates EXCEPT ![c] = "pruned"]
  BY <1>1, <1>2 DEF RowFates, RowFate
<1>4. Queue!Prune(c)
  BY <1>2, <1>3 DEF Queue!Prune, RowFates, Pending
<1>5. QED
  BY <1>4 DEF Queue!Next

\* The sink is closed once, and the store when the writer has ended with nothing left.
LEMMA CloseQueue ==
    ASSUME IInv, Close \/ CloseStore
    PROVE  Queue!Next
<1>1. UNCHANGED <<call, ch, writer>>
  BY DEF Close, CloseStore, sink
<1>2. RowFates' = RowFates /\ Pending' = Pending
  BY <1>1 DEF RowFates, RowFate, Pending
<1>3. CASE Close
  <2>1. Stage = "open" /\ Stage' = "closed"
    BY <1>3 DEF Close, Stage, IInv, Progress
  <2>2. Queue!Close
    BY <1>2, <2>1 DEF Queue!Close, RowFates, Stage
  <2>3. QED
    BY <2>2 DEF Queue!Next
<1>4. CASE CloseStore
  <2>1. main = "store" /\ main' = "exit" /\ chClosed /\ ch = <<>> /\ writer = None
    BY <1>4 DEF CloseStore, IInv, Progress, WriterGone
  <2>2. Stage = "closed" /\ Stage' = "over" /\ Pending = <<>>
    BY <2>1 DEF Stage, Pending
  <2>3. Queue!End
    BY <1>2, <2>2 DEF Queue!End, RowFates, Stage
  <2>4. QED
    BY <2>3 DEF Queue!Next
<1>5. QED
  BY <1>3, <1>4

LEMMA StepKeepsQueue ==
    ASSUME IInv, Held, [Next]_vars
    PROVE  [Queue!Next]_(Queue!vars)
<1>1. CASE OffTable
  <2>1. CASE Shutdown
    BY <2>1, QuietQueue, CloseQueue DEF Shutdown
  <2>2. QED
    BY <1>1, <2>1, QuietQueue, ObserveQueue, ReceiveQueue DEF OffTable
<1>2. QED
  BY <1>1, QuietQueue, InsertQueue, PruneQueue DEF Next

LEMMA InitQueue == Init => Held /\ Queue!Init
<1>1. SUFFICES ASSUME Init
               PROVE  Held /\ Queue!Init
  OBVIOUS
<1>2. ch = <<>> /\ writer = None /\ Len(ch) = 0 /\ main = "serve" /\ chClosed = FALSE
      /\ call = [c \in Calls |-> "new"]
  BY <1>1 DEF Init
<1>3. Held
  BY <1>2 DEF Held
<1>4. Queue!Init
  BY <1>2 DEF Queue!Init, Pending, RowFate
<1>5. QED
  BY <1>3, <1>4

\* The audit log implements AuditQueue: rows are written in the order they were
\* accepted, none is lost or dropped while there is room, and the store is closed on an
\* empty queue.
THEOREM ImplementsQueue == Spec => KeepsQueue
<1>1. Init => Held /\ Queue!Init
  BY InitQueue
<1>2. IInv /\ Held /\ [Next]_vars => Held'
  BY StepHeld
<1>3. IInv /\ Held /\ [Next]_vars => [Queue!Next]_(Queue!vars)
  BY StepKeepsQueue
<1>4. QED
  BY <1>1, <1>2, <1>3, Invariance, PTL DEF Spec, KeepsQueue, Queue!Spec
=============================================================================
