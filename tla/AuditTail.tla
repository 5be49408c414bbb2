------------------------------ MODULE AuditTail ------------------------------
(***************************************************************************)
(* The table behind the audit log, and one `gateway audit tail -f` that    *)
(* follows it: a process of its own, which prints the newest rows and then *)
(* asks once a second for the rows after the last id it has printed, while *)
(* the writer inserts and retention deletes.                               *)
(*                                                                         *)
(* A step is one statement of the database.  SQLite gives a new row the    *)
(* greatest id of the table plus one, so that an id is given again once    *)
(* retention has deleted the rows from it on.                              *)
(***************************************************************************)
EXTENDS Audit, FiniteSetsExt, Functions

CONSTANTS
    Recent,     \* -n
    Page        \* Filter.Limit of the following queries, 1000

ASSUME TailAssumption == Recent \in Nat \ {0} /\ Page \in Nat \ {0}

VARIABLES
    table,      \* the rows of tool_calls: an id, and the call it records
    tail,       \* the tail process
    last,       \* the id it goes on from
    shown,      \* the calls it has printed, in order
    highest,    \* history: the greatest id given so far
    passed,     \* history: the rows older than the newest it began with
    again,      \* history: the ids given more than once
    before      \* history: which calls were written before which

history == <<highest, passed, again, before>>
follower == <<tail, last, shown, passed>>
allVars == <<vars, table, tail, last, shown, history>>

Rows == [id : Nat \ {0}, of : Calls]

\* The types of the table and of the process that follows it.
TailTypeOK ==
    /\ table \subseteq Rows
    /\ tail \in {"off", "follow", "ended"}
    /\ last \in 0..highest
    /\ shown \in Seq(Calls)
    /\ \A r \in table : r.id <= highest
    /\ again \subseteq 1..highest /\ passed \subseteq Calls
    /\ before \subseteq Calls \X Calls

TailInit ==
    /\ Init
    /\ table = {} /\ tail = "off" /\ last = 0 /\ shown = <<>>
    /\ highest = 0 /\ passed = {} /\ again = {} /\ before = {}

Ids(rows) == {r.id : r \in rows}

-----------------------------------------------------------------------------
(* The table *)

\* Faulty variant: the greatest id is not counted on.
NextId_Same == Max(Ids(table) \cup {0})

NextId == Max(Ids(table) \cup {0}) + 1

Written == {c \in Calls : call[c] \in {"stored", "pruned"}}

InsertRow ==
    /\ Insert
    /\ IF call'[writer] = "stored"
       THEN /\ table' = table \cup {[id |-> NextId, of |-> writer]}
            /\ highest' = Max({highest, NextId})
            /\ again' = IF NextId <= highest THEN again \cup {NextId} ELSE again
            /\ before' = before \cup (Written \X {writer})
       ELSE UNCHANGED <<table, highest, again, before>>
    /\ UNCHANGED follower

DeleteRow ==
    /\ Prune
    /\ table' = {r \in table : call'[r.of] # "pruned"}
    /\ UNCHANGED <<follower, highest, again, before>>

\* Query without AfterID: newest first, at most n.
Newest(n) == {r \in table : Cardinality({q \in table : q.id > r.id}) < n}

\* Faulty variant: newest first, here too.
After_Newest(id, n) == {r \in Newest(n) : r.id > id}

\* Faulty variant: the row with the id once more.
After_From(id, n) ==
    LET rows == {r \in table : r.id >= id} IN
    {r \in rows : Cardinality({q \in rows : q.id < r.id}) < n}

\* Query with AfterID: oldest first, at most n.
After(id, n) ==
    LET rows == {r \in table : r.id > id} IN
    {r \in rows : Cardinality({q \in rows : q.id < r.id}) < n}

-----------------------------------------------------------------------------
(* runAudit *)

\* Faulty variant: newest first, as the query returns them.
InOrder_AsQueried(rows) ==
    {f \in [1..Cardinality(rows) -> rows] :
        Range(f) = rows /\ \A i, j \in DOMAIN f : i < j => f[i].id > f[j].id}

InOrder(rows) ==
    {f \in [1..Cardinality(rows) -> rows] :
        Range(f) = rows /\ \A i, j \in DOMAIN f : i < j => f[i].id < f[j].id}

\* Print rows, oldest first, and remember the last.
Encode(rows) ==
    \E inOrder \in InOrder(rows) :
        /\ shown' = shown \o [i \in DOMAIN inOrder |-> inOrder[i].of]
        /\ last' = IF rows = {} THEN last ELSE inOrder[Cardinality(rows)].id

TailStarts ==
    /\ tail = "off"
    /\ tail' = "follow"
    /\ Encode(Newest(Recent))
    /\ passed' = {r.of : r \in table \ Newest(Recent)}
    /\ UNCHANGED <<vars, table, highest, again, before>>

\* AfterID 0 would mean no filter: an empty log is followed after id 1.
TailPolls ==
    /\ tail = "follow"
    /\ Encode(After(Max({last, 1}), Page))
    /\ UNCHANGED <<vars, table, tail, history>>

\* A query fails, or the user has seen enough.
TailEnds ==
    /\ tail = "follow"
    /\ tail' = "ended"
    /\ UNCHANGED <<vars, table, last, shown, history>>

TailNext ==
    \/ OffTable /\ UNCHANGED <<table, tail, last, shown, history>>
    \/ InsertRow \/ DeleteRow
    \/ TailStarts \/ TailPolls \/ TailEnds

TailSpec == TailInit /\ [][TailNext]_allVars

FairTailSpec == TailSpec /\ MainFairness

-----------------------------------------------------------------------------
(* Properties *)

\* "Follow new rows": no row is printed twice, although rows come and go between
\* the queries and a page may not hold all the new ones.
ShownOnce == \A i, j \in DOMAIN shown : shown[i] = shown[j] => i = j

\* The log reads as a log: what is printed was written in this order, although ids
\* are given again and every query sees another table.
ShownInOrder ==
    \A i, j \in DOMAIN shown : i < j => <<shown[i], shown[j]>> \in before

\* "Oldest first when AfterID is set": the follower leaves out no row that it has
\* gone past, but for the first of a log that was empty (id 1) and rows that have
\* been given an id again after retention deleted the end of the table.
NoneLeftOut ==
    \A r \in table :
        r.id \in (2..last) \ again => r.of \in passed \cup Range(shown)
=============================================================================
