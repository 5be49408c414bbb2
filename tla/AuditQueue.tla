----------------------------- MODULE AuditQueue -----------------------------
(***************************************************************************)
(* What the audit log promises about the row of a call, with no writer     *)
(* goroutine and no shutdown in stages: a queue.  A row is accepted at the *)
(* end, or dropped when the buffer is full; rows leave from the front, in  *)
(* the order they came, into the store or with an error; a queue that has  *)
(* been closed accepts no more, and the log is over only once it is empty. *)
(***************************************************************************)
EXTENDS Naturals, Sequences

CONSTANTS
    Calls,      \* the calls that may have a row
    Room        \* rows that wait; one more may be on its way into the store

VARIABLES
    rows,       \* the rows accepted and not yet written, oldest first
    fate,       \* of the row of each call
    stage       \* "open", "closed" or "over"

vars == <<rows, fate, stage>>

Init ==
    /\ rows = <<>>
    /\ fate = [c \in Calls |-> "none"]
    /\ stage = "open"

Accept(c) ==
    /\ stage = "open" /\ fate[c] = "none" /\ Len(rows) <= Room
    /\ rows' = Append(rows, c)
    /\ fate' = [fate EXCEPT ![c] = "accepted"]
    /\ UNCHANGED stage

\* Whether the front row still waits when the buffer is full is not told.
Drop(c) ==
    /\ stage = "open" /\ fate[c] = "none" /\ Len(rows) >= Room
    /\ fate' = [fate EXCEPT ![c] = "dropped"]
    /\ UNCHANGED <<rows, stage>>

Write(outcome) ==
    /\ rows # <<>>
    /\ rows' = Tail(rows)
    /\ fate' = [fate EXCEPT ![Head(rows)] = outcome]
    /\ UNCHANGED stage

Prune(c) ==
    /\ stage # "over" /\ fate[c] = "stored"
    /\ fate' = [fate EXCEPT ![c] = "pruned"]
    /\ UNCHANGED <<rows, stage>>

Close ==
    /\ stage = "open"
    /\ stage' = "closed"
    /\ UNCHANGED <<rows, fate>>

End ==
    /\ stage = "closed" /\ rows = <<>>
    /\ stage' = "over"
    /\ UNCHANGED <<rows, fate>>

Next ==
    \/ \E c \in Calls : Accept(c) \/ Drop(c) \/ Prune(c)
    \/ \E outcome \in {"stored", "failed"} : Write(outcome)
    \/ Close \/ End

Spec == Init /\ [][Next]_vars
=============================================================================
