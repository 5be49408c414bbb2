--------------------------- MODULE AuditTailProofs ---------------------------
(***************************************************************************)
(* Proofs about AuditTail, for any calls and any -n and Limit: the tail    *)
(* prints no row twice, and leaves out none but the exceptions that        *)
(* NoneLeftOut names.  The inductive invariant follows a row from the      *)
(* channel to the writer (Held, of AuditProofs), the table (OneRow) and the output         *)
(* (Printed).                                                              *)
(***************************************************************************)
EXTENDS AuditTail, AuditProofs, FiniteSetTheorems, WellFoundedInduction

\* The rows are those of the stored calls, one for each, and the ids tell them apart.
OneRow ==
    /\ IsFiniteSet(table)
    /\ \A r \in table : call[r.of] = "stored"
    /\ \A q, r \in table : (q.id = r.id \/ q.of = r.of) => q = r

\* What has been printed was a row, and is not among the rows to come.
Printed ==
    /\ \A i \in DOMAIN shown : call[shown[i]] \in {"stored", "pruned"}
    /\ \A r \in table : r.of \in Range(shown) => r.id <= last
    /\ tail = "off" => last = 0 /\ shown = <<>>

TailIInv ==
    /\ IInv /\ Held
    /\ TailTypeOK /\ highest \in Nat
    /\ OneRow /\ Printed /\ ShownOnce /\ NoneLeftOut

-----------------------------------------------------------------------------
(* Facts about sets of ids and about the rows of a query *)

\* A set of numbers up to n has a greatest element.
LEMMA GreatestOf ==
    ASSUME NEW n \in Nat, NEW S \in SUBSET (0..n), S # {}
    PROVE  Max(S) \in S /\ \A x \in S : Max(S) >= x
<1> DEFINE Gaps == {n - x : x \in S}
<1>1. Gaps \subseteq Nat /\ Gaps # {}
    <2>1. ASSUME NEW x \in S PROVE n - x \in Nat
        <3>1. x \in 0..n
            OBVIOUS
        <3> QED
            BY <3>1
    <2>2. PICK x \in S : TRUE
        OBVIOUS
    <2>3. n - x \in Gaps
        BY <2>2
    <2> QED
        BY <2>1, <2>3
<1> DEFINE Below == OpToRel(<, Nat)
<1>2. IsWellFoundedOn(Below, Nat)
    BY NatLessThanWellFounded
<1> HIDE DEF Below, Gaps
<1>3. PICK g \in Gaps : \A k \in Gaps : ~(<<k, g>> \in Below)
    BY <1>1, <1>2, WFMin
<1>4. PICK x \in S : g = n - x
    BY <1>3 DEF Gaps
<1>5. ASSUME NEW y \in S, ~(x >= y) PROVE FALSE
    <2>1. n - y \in Gaps /\ n - y < g /\ n - y \in Nat /\ g \in Nat
        BY <1>4, <1>5 DEF Gaps
    <2>2. <<n - y, g>> \in Below
        BY <2>1 DEF Below, OpToRel
    <2> QED
        BY <1>3, <2>1, <2>2
<1> QED
    BY <1>5 DEF Max

\* A new row gets an id of its own, which follows all others.
LEMMA NextIdFollows ==
    ASSUME TailIInv
    PROVE  /\ NextId \in 1..(highest + 1)
           /\ \A r \in table : r.id < NextId
<1> DEFINE S == Ids(table) \cup {0}
<1>1. S \in SUBSET (0..highest) /\ S # {} /\ highest \in Nat
    BY DEF Ids, TailIInv, TailTypeOK, Rows
<1>2. Max(S) \in S /\ \A x \in S : Max(S) >= x
    BY <1>1, GreatestOf
<1>3. \A r \in table : r.id \in S
    BY DEF Ids
<1>4. Max(S) \in 0..highest
    BY <1>1, <1>2
<1> HIDE DEF S
<1>5. NextId = Max(S) + 1
    BY DEF NextId, S
<1>6. \A r \in table : r.id \in Nat
    BY DEF TailIInv, TailTypeOK, Rows
<1> QED
    BY <1>1, <1>2, <1>3, <1>4, <1>5, <1>6

\* The rows of a query, put in order, are all there, each once, and the last has the
\* greatest id.
LEMMA Ordered ==
    ASSUME TailIInv, NEW rows \in SUBSET table, NEW f \in InOrder(rows)
    PROVE  /\ Cardinality(rows) \in Nat
           /\ DOMAIN f = 1..Cardinality(rows)
           /\ \A i \in DOMAIN f : f[i] \in rows
           /\ \A r \in rows : \E i \in DOMAIN f : r = f[i]
           /\ \A i, j \in DOMAIN f : f[i].of = f[j].of => i = j
           /\ rows # {} => /\ f[Cardinality(rows)] \in rows
                           /\ \A r \in rows : r.id <= f[Cardinality(rows)].id
<1> DEFINE n == Cardinality(rows)
<1>1. n \in Nat
    BY FS_Subset, FS_CardinalityType DEF TailIInv, OneRow
<1>2. /\ DOMAIN f = 1..n /\ \A i \in 1..n : f[i] \in rows
      /\ Range(f) = rows
      /\ \A i, j \in DOMAIN f : i < j => f[i].id < f[j].id
    BY DEF InOrder
<1>3. \A r \in rows : r.id \in Nat
    BY DEF TailIInv, TailTypeOK, Rows
<1>4. \A r \in rows : \E i \in DOMAIN f : r = f[i]
    BY <1>2 DEF Range
<1> HIDE DEF n
<1>5. ASSUME NEW i \in DOMAIN f, NEW j \in DOMAIN f, f[i].of = f[j].of
      PROVE  i = j
    <2>1. f[i] = f[j]
        BY <1>2, <1>5 DEF TailIInv, OneRow
    <2>2. f[i].id \in Nat /\ f[i].id = f[j].id
        BY <1>2, <1>3, <2>1
    <2>3. ~(i < j) /\ ~(j < i)
        BY <1>2, <2>2
    <2> QED
        BY <1>1, <1>2, <2>3
<1>6. ASSUME rows # {}
      PROVE  f[n] \in rows /\ \A r \in rows : r.id <= f[n].id
    <2>1. n \in DOMAIN f
        <3>1. PICK r \in rows : TRUE
            BY <1>6
        <3>2. PICK i \in DOMAIN f : r = f[i]
            BY <1>4
        <3> QED
            BY <1>1, <1>2, <3>2
    <2>2. ASSUME NEW r \in rows PROVE r.id <= f[n].id
        <3>1. PICK i \in DOMAIN f : r = f[i]
            BY <1>4
        <3>2. i = n \/ i < n
            BY <1>1, <1>2
        <3>3. f[i].id = f[n].id \/ f[i].id < f[n].id
            BY <1>2, <2>1, <3>2
        <3>4. r.id \in Nat /\ f[n].id \in Nat
            BY <1>2, <1>3, <2>1
        <3> QED
            BY <3>1, <3>3, <3>4
    <2> QED
        BY <1>2, <2>1, <2>2
<1> QED
    BY <1>1, <1>2, <1>4, <1>5, <1>6 DEF n

\* A page takes the rows that come first: one that is not on it comes after all that
\* are.
LEMMA PageIsFirst ==
    ASSUME TailIInv, NEW id \in Nat, NEW p \in After(id, Page),
           NEW r \in table, r.id > id, r.id <= p.id
    PROVE  r \in After(id, Page)
<1> DEFINE rows == {q \in table : q.id > id}
           Q(x) == {q \in rows : q.id < x.id}
<1>1. rows \in SUBSET table /\ IsFiniteSet(rows)
    BY FS_Subset DEF TailIInv, OneRow
<1>2. \A q \in table : q.id \in Nat
    BY DEF TailIInv, TailTypeOK, Rows
<1>3. p \in rows /\ Cardinality(Q(p)) < Page /\ r \in rows
    BY DEF After
<1>4. Q(r) \in SUBSET Q(p) /\ Q(p) \in SUBSET rows
    BY <1>1, <1>2, <1>3
<1>5. /\ IsFiniteSet(Q(p)) /\ IsFiniteSet(Q(r))
      /\ Cardinality(Q(r)) <= Cardinality(Q(p))
    BY <1>1, <1>4, FS_Subset
<1>6. Cardinality(Q(p)) \in Nat /\ Cardinality(Q(r)) \in Nat
    BY <1>5, FS_CardinalityType
<1>7. Cardinality(Q(r)) < Page
    BY <1>3, <1>5, <1>6, TailAssumption
<1> QED
    BY <1>3, <1>7 DEF After

-----------------------------------------------------------------------------
(* Steps that leave the table alone *)

\* What the tail and the table know of a call outlives what happens off the table.
LEMMA OffTableRows ==
    ASSUME TailIInv, IInv', Held',
           UNCHANGED <<table, tail, last, shown, history>>,
           \A c \in Calls : call[c] \in {"stored", "pruned"} => call'[c] = call[c]
    PROVE  TailIInv'
<1>1. TailTypeOK' /\ (highest \in Nat)' /\ ShownOnce' /\ NoneLeftOut'
    BY DEF TailIInv, TailTypeOK, ShownOnce, NoneLeftOut, history
<1>2. \A r \in table : r.of \in Calls
    BY DEF TailIInv, TailTypeOK, Rows
<1>3. OneRow'
    BY <1>2 DEF TailIInv, OneRow
<1>4. \A i \in DOMAIN shown : shown[i] \in Calls
    BY DEF TailIInv, TailTypeOK
<1>5. Printed'
    BY <1>4 DEF TailIInv, Printed
<1> QED
    BY <1>1, <1>3, <1>5 DEF TailIInv

\* Nothing that happens off the table disturbs the table or the tail.
LEMMA OffTableStep ==
    ASSUME TailIInv, OffTable, UNCHANGED <<table, tail, last, shown, history>>
    PROVE  TailIInv'
<1>1. IInv'
    BY QuietSteps, ObserveStep, ReceiveStep DEF OffTable, TailIInv
<1>2. /\ Held'
      /\ \A d \in Calls : call[d] \in {"stored", "pruned"} => call'[d] = call[d]
    BY QuietHeld, ObserveHeld, ReceiveHeld DEF OffTable, TailIInv
<1> QED
    BY <1>1, <1>2, OffTableRows

-----------------------------------------------------------------------------
(* Steps of the table *)

\* An insert that fails leaves no row, one that succeeds a row that is new to the
\* table and to the tail.
LEMMA InsertRowStep ==
    ASSUME TailIInv, InsertRow
    PROVE  TailIInv'
<1>1. Insert /\ IInv'
    BY InsertStep DEF InsertRow, TailIInv
<1>2. PICK fate \in {"stored", "failed"} : call' = [call EXCEPT ![writer] = fate]
    BY <1>1 DEF Insert
<1>3. /\ call \in [Calls -> Fates] /\ ch \in Seq(Calls)
      /\ writer \in Calls /\ call[writer] = "inserting"
      /\ writer' = None /\ ch' = ch
      /\ UNCHANGED <<tail, last, shown, passed>>
    BY <1>1 DEF Insert, InsertRow, follower, TailIInv, IInv, TypeOK, Held
<1>4. \A d \in Calls : d # writer => call'[d] = call[d]
    BY <1>2, <1>3
<1>5. Held'
    <2>1. \A i \in 1..Len(ch) : ch[i] \in Calls /\ ch[i] # writer
        BY <1>3 DEF TailIInv, Held
    <2> QED
        BY <1>3, <1>4, <2>1 DEF TailIInv, Held
<1>6. /\ \A r \in table : r \in Rows /\ r.of \in Calls /\ r.of # writer /\ r.id \in Nat \ {0}
      /\ \A i \in DOMAIN shown : shown[i] \in Calls /\ shown[i] # writer
      /\ highest \in Nat /\ last \in 0..highest
    BY <1>3 DEF TailIInv, OneRow, Printed, TailTypeOK, Rows
<1>7. CASE call'[writer] # "stored"
    <2>1. UNCHANGED <<table, highest, again, before>>
        BY <1>7 DEF InsertRow
    <2>2. TailTypeOK' /\ (highest \in Nat)' /\ ShownOnce' /\ NoneLeftOut'
        BY <1>3, <2>1 DEF TailIInv, TailTypeOK, ShownOnce, NoneLeftOut
    <2>3. OneRow'
        BY <1>4, <1>6, <2>1 DEF TailIInv, OneRow
    <2>4. Printed'
        BY <1>3, <1>4, <1>6, <2>1 DEF TailIInv, Printed
    <2> QED
        BY <1>1, <1>5, <2>2, <2>3, <2>4 DEF TailIInv
<1>8. CASE call'[writer] = "stored"
    <2> DEFINE new == [id |-> NextId, of |-> writer]
    <2>1. /\ table' = table \cup {new}
          /\ highest' = Max({highest, NextId})
          /\ again' = IF NextId <= highest THEN again \cup {NextId} ELSE again
          /\ before' = before \cup (Written \X {writer})
        BY <1>8 DEF InsertRow
    <2>2. NextId \in 1..(highest + 1) /\ \A r \in table : r.id < NextId
        BY NextIdFollows
    <2>3. /\ highest' \in Nat /\ highest <= highest' /\ NextId <= highest'
        <3>1. {highest, NextId} \in SUBSET (0..(highest + 1)) /\ highest + 1 \in Nat
            BY <1>6, <2>2
        <3>2. Max({highest, NextId}) \in {highest, NextId}
              /\ \A x \in {highest, NextId} : Max({highest, NextId}) >= x
            BY <3>1, GreatestOf
        <3> QED
            BY <1>6, <2>1, <2>2, <3>2
    <2>4. new \in Rows /\ new.of = writer /\ new.id = NextId
        BY <1>3, <2>2 DEF Rows
    <2>5. TailTypeOK'
        <3>1. table' \subseteq Rows /\ \A r \in table' : r.id <= highest'
            BY <1>6, <2>1, <2>2, <2>3, <2>4 DEF TailIInv, TailTypeOK
        <3>2. last' \in 0..highest'
            BY <1>3, <1>6, <2>3
        <3>3. again' \subseteq 1..highest'
            BY <1>6, <2>1, <2>2, <2>3 DEF TailIInv, TailTypeOK
        <3>4. before' \subseteq Calls \X Calls
            BY <1>3, <2>1 DEF TailIInv, TailTypeOK, Written
        <3> QED
            BY <1>3, <3>1, <3>2, <3>3, <3>4 DEF TailIInv, TailTypeOK
    <2> HIDE DEF new
    <2>6. OneRow'
        <3>1. IsFiniteSet(table')
            BY <2>1, FS_AddElement DEF TailIInv, OneRow
        <3>2. \A r \in table' : call'[r.of] = "stored"
            BY <1>4, <1>6, <1>8, <2>1, <2>4 DEF TailIInv, OneRow
        <3>3. \A r \in table : r.id # new.id /\ r.of # new.of
            BY <1>6, <2>2, <2>4
        <3>4. \A q, r \in table' : (q.id = r.id \/ q.of = r.of) => q = r
            BY <2>1, <3>3 DEF TailIInv, OneRow
        <3> QED
            BY <3>1, <3>2, <3>4 DEF OneRow
    <2>7. writer \notin Range(shown)
        BY <1>6 DEF Range
    <2>8. Printed'
        <3>1. \A i \in DOMAIN shown : call'[shown[i]] \in {"stored", "pruned"}
            BY <1>4, <1>6 DEF TailIInv, Printed
        <3>2. \A r \in table' : r.of \in Range(shown) => r.id <= last
            BY <2>1, <2>4, <2>7 DEF TailIInv, Printed
        <3> QED
            BY <1>3, <3>1, <3>2 DEF TailIInv, Printed
    <2>9. NoneLeftOut'
        <3>1. ASSUME NEW r \in table', r.id \in (2..last) \ again'
              PROVE  r.of \in passed \cup Range(shown)
            <4>1. r.id \notin again
                BY <2>1, <3>1
            <4>2. r # new
                BY <1>6, <2>1, <2>2, <2>4, <3>1
            <4> QED
                BY <2>1, <3>1, <4>1, <4>2 DEF TailIInv, NoneLeftOut
        <3> QED
            BY <1>3, <3>1 DEF NoneLeftOut
    <2>10. ShownOnce'
        BY <1>3 DEF TailIInv, ShownOnce
    <2> QED
        BY <1>1, <1>5, <2>3, <2>5, <2>6, <2>8, <2>9, <2>10 DEF TailIInv
<1> QED
    BY <1>7, <1>8

\* Retention takes rows away, and what has been printed of them stays printed.
LEMMA DeleteRowStep ==
    ASSUME TailIInv, DeleteRow
    PROVE  TailIInv'
<1>1. Prune /\ IInv'
    BY QuietSteps DEF DeleteRow, TailIInv
<1>2. PICK c \in Calls : call[c] = "stored" /\ call' = [call EXCEPT ![c] = "pruned"]
    BY <1>1 DEF Prune
<1>3. /\ call \in [Calls -> Fates] /\ ch \in Seq(Calls) /\ writer \in Calls \cup {None}
      /\ UNCHANGED <<ch, writer, tail, last, shown, passed, highest, again, before>>
      /\ table' = {r \in table : call'[r.of] # "pruned"}
    BY <1>1 DEF Prune, sink, DeleteRow, follower, TailIInv, IInv, TypeOK
<1>4. \A d \in Calls : call'[d] = IF d = c THEN "pruned" ELSE call[d]
    BY <1>2, <1>3
<1>5. Held'
    <2>1. \A i \in 1..Len(ch) : ch[i] \in Calls /\ ch[i] # c
        BY <1>2, <1>3 DEF TailIInv, Held
    <2>2. writer # None => writer \in Calls /\ writer # c
        BY <1>2, <1>3 DEF TailIInv, Held
    <2> QED
        BY <1>3, <1>4, <2>1, <2>2 DEF TailIInv, Held
<1>6. TailTypeOK' /\ (highest \in Nat)' /\ ShownOnce' /\ NoneLeftOut'
    BY <1>3 DEF TailIInv, TailTypeOK, ShownOnce, NoneLeftOut
<1>7. OneRow'
    <2>1. IsFiniteSet(table')
        BY <1>3, FS_Subset DEF TailIInv, OneRow
    <2>2. \A r \in table' : r \in table /\ r.of \in Calls /\ r.of # c
        BY <1>3, <1>4 DEF TailIInv, TailTypeOK, Rows
    <2> QED
        BY <1>4, <2>1, <2>2 DEF TailIInv, OneRow
<1>8. Printed'
    <2>1. \A i \in DOMAIN shown : shown[i] \in Calls
        BY DEF TailIInv, TailTypeOK
    <2> QED
        BY <1>3, <1>4, <2>1 DEF TailIInv, Printed
<1> QED
    BY <1>1, <1>5, <1>6, <1>7, <1>8 DEF TailIInv

-----------------------------------------------------------------------------
(* Steps of the tail *)

\* Printing rows that have not been printed, oldest first, prints each once, and none
\* of the table's rows is then printed that does not come before the last.
LEMMA EncodeStep ==
    ASSUME TailIInv, NEW rows \in SUBSET table, Encode(rows),
           \A r \in rows : r.id >= last /\ r.of \notin Range(shown),
           tail' # "off", UNCHANGED <<vars, table, highest, again>>
    PROVE  /\ IInv' /\ Held' /\ (highest \in Nat)' /\ OneRow' /\ Printed' /\ ShownOnce'
           /\ shown' \in Seq(Calls) /\ last' \in last..highest
           /\ Range(shown') = Range(shown) \cup {r.of : r \in rows}
           /\ \A r \in rows : r.id <= last'
           /\ rows = {} => last' = last
           /\ rows # {} => \E r \in rows : last' = r.id
<1> DEFINE n == Cardinality(rows)
           print(f) == [i \in DOMAIN f |-> f[i].of]
<1>1. PICK f \in InOrder(rows) :
        /\ shown' = shown \o print(f)
        /\ last' = IF rows = {} THEN last ELSE f[n].id
    BY DEF Encode
<1>2. /\ n \in Nat /\ DOMAIN f = 1..n /\ \A i \in DOMAIN f : f[i] \in rows
      /\ \A r \in rows : \E i \in DOMAIN f : r = f[i]
      /\ \A i, j \in DOMAIN f : f[i].of = f[j].of => i = j
      /\ rows # {} => f[n] \in rows /\ \A r \in rows : r.id <= f[n].id
    BY Ordered
<1> HIDE DEF n
<1>3. /\ \A r \in table : r.id \in Nat /\ r.id <= highest /\ r.of \in Calls
      /\ shown \in Seq(Calls) /\ last \in 0..highest /\ highest \in Nat
    BY DEF TailIInv, TailTypeOK, Rows
<1> DEFINE m == Len(shown)
<1>4. /\ print(f) \in Seq(Calls) /\ Len(print(f)) = n
      /\ \A i \in 1..n : print(f)[i] = f[i].of
    BY <1>2, <1>3
<1> HIDE DEF print
<1>5. /\ m \in Nat /\ DOMAIN shown = 1..m
      /\ shown' \in Seq(Calls) /\ DOMAIN shown' = 1..(m + n)
      /\ \A i \in 1..(m + n) :
            \/ i \in 1..m /\ shown'[i] = shown[i]
            \/ i - m \in 1..n /\ shown'[i] = f[i - m].of
    BY <1>1, <1>2, <1>3, <1>4
<1>6. /\ \A i \in 1..m : i \in 1..(m + n) /\ shown'[i] = shown[i]
      /\ \A i \in 1..n : m + i \in 1..(m + n) /\ shown'[m + i] = f[i].of
    BY <1>1, <1>2, <1>3, <1>4
<1> HIDE DEF m
<1>7. Range(shown') = Range(shown) \cup {r.of : r \in rows}
    <2>1. ASSUME NEW c \in Range(shown')
          PROVE  c \in Range(shown) \cup {r.of : r \in rows}
        <3>1. PICK i \in 1..(m + n) : c = shown'[i]
            BY <1>5 DEF Range
        <3>2. \/ i \in 1..m /\ c = shown[i]
              \/ i - m \in 1..n /\ c = f[i - m].of
            BY <1>5, <3>1
        <3> QED
            BY <1>2, <1>5, <3>2 DEF Range
    <2>2. Range(shown) \subseteq Range(shown')
        BY <1>5, <1>6 DEF Range
    <2>3. ASSUME NEW r \in rows PROVE r.of \in Range(shown')
        <3>1. PICK i \in 1..n : r = f[i]
            BY <1>2
        <3> QED
            BY <1>5, <1>6, <3>1 DEF Range
    <2> QED
        BY <2>1, <2>2, <2>3
<1>8. /\ last' \in last..highest
      /\ \A r \in rows : r.id <= last'
      /\ rows = {} => last' = last
      /\ rows # {} => \E r \in rows : last' = r.id
    BY <1>1, <1>2, <1>3 DEF n
<1>9. IInv' /\ Held' /\ (highest \in Nat)' /\ OneRow'
    <2>1. IInv'
        BY QuietSteps DEF TailIInv
    <2>2. Held'
        BY QuietHeld DEF TailIInv
    <2> QED
        BY <2>1, <2>2 DEF TailIInv, OneRow, vars
<1>10. Printed'
    <2>1. ASSUME NEW i \in 1..(m + n)
          PROVE  call[shown'[i]] \in {"stored", "pruned"}
        <3>1. \/ i \in 1..m /\ shown'[i] = shown[i]
              \/ i - m \in 1..n /\ shown'[i] = f[i - m].of
            BY <1>5
        <3>2. CASE i \in 1..m /\ shown'[i] = shown[i]
            BY <1>5, <3>2 DEF TailIInv, Printed
        <3>3. CASE i - m \in 1..n /\ shown'[i] = f[i - m].of
            <4>1. f[i - m] \in table
                BY <1>2, <3>3
            <4> QED
                BY <3>3, <4>1 DEF TailIInv, OneRow
        <3> QED
            BY <3>1, <3>2, <3>3
    <2>2. ASSUME NEW r \in table, r.of \in Range(shown') PROVE r.id <= last'
        <3>1. CASE r.of \in Range(shown)
            BY <1>3, <1>8, <3>1 DEF TailIInv, Printed
        <3>2. CASE r.of \notin Range(shown)
            <4>1. PICK q \in rows : q.of = r.of
                BY <1>7, <2>2, <3>2
            <4>2. q = r
                BY <4>1 DEF TailIInv, OneRow
            <4> QED
                BY <1>8, <4>2
        <3> QED
            BY <3>1, <3>2
    <2> QED
        BY <1>5, <2>1, <2>2 DEF Printed, vars
<1>11. ShownOnce'
    <2>1. ASSUME NEW i \in 1..(m + n), NEW j \in 1..(m + n), shown'[i] = shown'[j]
          PROVE  i = j
        <3>1. ASSUME NEW k \in 1..m, NEW l \in 1..n PROVE shown[k] # f[l].of
            <4>1. f[l].of \notin Range(shown)
                BY <1>2
            <4>2. shown[k] \in Range(shown)
                BY <1>5 DEF Range
            <4> QED
                BY <4>1, <4>2
        <3>2. /\ \/ i \in 1..m /\ shown'[i] = shown[i]
                 \/ i - m \in 1..n /\ shown'[i] = f[i - m].of
              /\ \/ j \in 1..m /\ shown'[j] = shown[j]
                 \/ j - m \in 1..n /\ shown'[j] = f[j - m].of
            BY <1>5
        <3>3. CASE i \in 1..m /\ j \in 1..m /\ shown[i] = shown[j]
            BY <1>5, <3>3 DEF TailIInv, ShownOnce
        <3>4. CASE i - m \in 1..n /\ j - m \in 1..n /\ f[i - m].of = f[j - m].of
            <4>1. i - m = j - m
                BY <1>2, <3>4
            <4> QED
                BY <1>2, <1>5, <4>1
        <3> QED
            BY <2>1, <3>1, <3>2, <3>3, <3>4
    <2> QED
        BY <1>5, <2>1 DEF ShownOnce
<1> QED
    BY <1>5, <1>7, <1>8, <1>9, <1>10, <1>11

\* The tail begins with the newest rows, and passes the others.
LEMMA TailStartsStep ==
    ASSUME TailIInv, TailStarts
    PROVE  TailIInv'
<1> DEFINE rows == Newest(Recent)
<1>1. rows \in SUBSET table
    BY DEF Newest
<1>2. /\ Encode(rows) /\ tail' = "follow" /\ UNCHANGED <<vars, table, highest, again, before>>
      /\ passed' = {r.of : r \in table \ rows}
      /\ last = 0 /\ shown = <<>>
    BY DEF TailStarts, TailIInv, Printed
<1>3. \A r \in table : r.id \in Nat /\ r.of \in Calls
    BY DEF TailIInv, TailTypeOK, Rows
<1> HIDE DEF rows
<1>4. \A r \in rows : r.id >= last /\ r.of \notin Range(shown)
    BY <1>1, <1>2, <1>3 DEF Range
<1>5. /\ IInv' /\ Held' /\ (highest \in Nat)' /\ OneRow' /\ Printed' /\ ShownOnce'
      /\ shown' \in Seq(Calls) /\ last' \in last..highest
      /\ Range(shown') = Range(shown) \cup {r.of : r \in rows}
    BY <1>1, <1>2, <1>4, EncodeStep
<1>6. TailTypeOK'
    BY <1>2, <1>3, <1>5 DEF TailIInv, TailTypeOK
<1>7. NoneLeftOut'
    BY <1>2, <1>5 DEF NoneLeftOut
<1> QED
    BY <1>5, <1>6, <1>7 DEF TailIInv

\* A query for the rows after the last prints those that follow without a gap.
LEMMA TailPollsStep ==
    ASSUME TailIInv, TailPolls
    PROVE  TailIInv'
<1> DEFINE id == Max({last, 1})
           rows == After(id, Page)
<1>1. /\ last \in Nat /\ highest \in Nat /\ last <= highest
      /\ \A r \in table : r.id \in Nat \ {0} /\ r.id <= highest /\ r.of \in Calls
    BY DEF TailIInv, TailTypeOK, Rows
<1>2. id \in Nat /\ id >= last /\ id >= 1 /\ (id = last \/ id = 1)
    <2>1. {last, 1} \in SUBSET (0..(last + 1)) /\ last + 1 \in Nat
        BY <1>1
    <2>2. id \in {last, 1} /\ \A x \in {last, 1} : id >= x
        BY <2>1, GreatestOf
    <2> QED
        BY <1>1, <2>2
<1>3. /\ Encode(rows) /\ tail' = "follow" /\ UNCHANGED <<vars, table, highest, again, passed, before>>
    BY DEF TailPolls, history
<1> HIDE DEF id
<1>4. rows \in SUBSET table /\ \A r \in rows : r.id > id
    BY DEF After
<1> HIDE DEF rows
<1>5. \A r \in rows : r.id >= last /\ r.of \notin Range(shown)
    BY <1>1, <1>2, <1>4 DEF TailIInv, Printed
<1>6. /\ IInv' /\ Held' /\ (highest \in Nat)' /\ OneRow' /\ Printed' /\ ShownOnce'
      /\ shown' \in Seq(Calls) /\ last' \in last..highest
      /\ Range(shown') = Range(shown) \cup {r.of : r \in rows}
      /\ rows = {} => last' = last
      /\ rows # {} => \E r \in rows : last' = r.id
    BY <1>3, <1>4, <1>5, EncodeStep
<1>7. TailTypeOK'
    BY <1>1, <1>3, <1>6 DEF TailIInv, TailTypeOK
<1>8. ASSUME NEW r \in table, r.id \in 2..last', r.id \notin again
      PROVE  r.of \in passed \cup Range(shown')
    <2>1. CASE r.id <= last
        <3>1. r.id \in (2..last) \ again
            BY <1>1, <1>8, <2>1
        <3> QED
            BY <1>6, <3>1 DEF TailIInv, NoneLeftOut
    <2>2. CASE ~(r.id <= last)
        <3>1. PICK p \in rows : last' = p.id
            BY <1>1, <1>6, <1>8, <2>2
        <3>2. r.id > id /\ r.id <= p.id
            BY <1>1, <1>2, <1>8, <2>2, <3>1
        <3>3. r \in rows
            BY <1>2, <3>1, <3>2, PageIsFirst DEF rows
        <3> QED
            BY <1>6, <3>3
    <2> QED
        BY <2>1, <2>2
<1>9. NoneLeftOut'
    BY <1>3, <1>8 DEF NoneLeftOut
<1> QED
    BY <1>6, <1>7, <1>9 DEF TailIInv

-----------------------------------------------------------------------------
(* The order of what is printed *)

\* Within the table the ids tell which row is older, and the rows the tail has still to
\* print are younger than all it has printed.
ByAge ==
    /\ \A q, r \in table : q.id < r.id => <<q.of, r.of>> \in before
    /\ \A i \in DOMAIN shown : \A r \in table : r.id > last => <<shown[i], r.of>> \in before

\* A row that is written is younger than every row of the table and of the output.
LEMMA InsertOrder ==
    ASSUME TailIInv, ByAge, ShownInOrder, InsertRow
    PROVE  ByAge' /\ ShownInOrder'
<1>1. UNCHANGED <<tail, last, shown, passed>>
    BY DEF InsertRow, follower
<1>2. CASE call'[writer] # "stored"
    BY <1>1, <1>2 DEF InsertRow, ByAge, ShownInOrder
<1>3. CASE call'[writer] = "stored"
    <2> DEFINE new == [id |-> NextId, of |-> writer]
    <2>1. table' = table \cup {new} /\ before' = before \cup (Written \X {writer})
        BY <1>3 DEF InsertRow
    <2>2. \A r \in table : r.id < NextId /\ r.id \in Nat /\ r.of \in Written
        BY NextIdFollows DEF TailIInv, TailTypeOK, Rows, OneRow, Written
    <2>3. \A i \in DOMAIN shown : shown[i] \in Written
        BY DEF TailIInv, TailTypeOK, Printed, Written
    <2>4. NextId \in Nat
        BY NextIdFollows DEF TailIInv
    <2>5. ASSUME NEW q \in table', NEW r \in table', q.id < r.id
          PROVE  <<q.of, r.of>> \in before'
        <3>1. CASE r \in table
            <4>1. q \in table
                BY <2>1, <2>2, <2>4, <2>5, <3>1
            <4> QED
                BY <2>1, <2>5, <3>1, <4>1 DEF ByAge
        <3>2. CASE r = new
            <4>1. q \in table
                BY <2>1, <2>4, <2>5, <3>2
            <4> QED
                BY <2>1, <2>2, <3>2, <4>1
        <3> QED
            BY <2>1, <3>1, <3>2
    <2>6. ASSUME NEW i \in DOMAIN shown, NEW r \in table', r.id > last
          PROVE  <<shown[i], r.of>> \in before'
        BY <2>1, <2>3, <2>6 DEF ByAge
    <2>7. ByAge'
        BY <1>1, <2>5, <2>6 DEF ByAge
    <2> QED
        BY <1>1, <2>1, <2>7 DEF ShownInOrder
<1> QED
    BY <1>2, <1>3

\* The elements of two sequences that are joined.
LEMMA Joined ==
    ASSUME NEW S, NEW s \in Seq(S), NEW p \in Seq(S)
    PROVE  /\ Len(s) \in Nat /\ DOMAIN s = 1..Len(s)
           /\ s \o p \in Seq(S) /\ DOMAIN (s \o p) = 1..(Len(s) + Len(p))
           /\ \A i \in 1..(Len(s) + Len(p)) :
                 \/ i \in 1..Len(s) /\ (s \o p)[i] = s[i]
                 \/ i - Len(s) \in 1..Len(p) /\ (s \o p)[i] = p[i - Len(s)]
OBVIOUS

\* Rows that are still to come are printed in their order behind what has been printed.
LEMMA EncodeOrder ==
    ASSUME TailIInv, ByAge, ShownInOrder, NEW rows \in SUBSET table, Encode(rows),
           \A r \in rows : r.id > last, UNCHANGED <<table, before>>
    PROVE  ByAge' /\ ShownInOrder'
<1> DEFINE n == Cardinality(rows)
           m == Len(shown)
           print(f) == [i \in DOMAIN f |-> f[i].of]
<1>1. PICK f \in InOrder(rows) :
        /\ shown' = shown \o print(f)
        /\ last' = IF rows = {} THEN last ELSE f[n].id
    BY DEF Encode
<1>2. /\ n \in Nat /\ DOMAIN f = 1..n /\ \A i \in DOMAIN f : f[i] \in rows
      /\ rows # {} => f[n] \in rows /\ \A r \in rows : r.id <= f[n].id
    BY Ordered
<1>3. \A i, j \in 1..n : i < j => f[i].id < f[j].id
    BY <1>2 DEF InOrder
<1> HIDE DEF n
<1>4. /\ \A r \in table : r.id \in Nat /\ r.of \in Calls
      /\ shown \in Seq(Calls) /\ last \in Nat
    BY DEF TailIInv, TailTypeOK, Rows
<1>5. /\ print(f) \in Seq(Calls) /\ Len(print(f)) = n
      /\ \A i \in 1..n : print(f)[i] = f[i].of
    BY <1>2, <1>4
<1> HIDE DEF print
<1>6. /\ m \in Nat /\ DOMAIN shown = 1..m
      /\ shown' \in Seq(Calls) /\ DOMAIN shown' = 1..(m + n)
      /\ \A i \in 1..(m + n) :
            \/ i \in 1..m /\ shown'[i] = shown[i]
            \/ i - m \in 1..n /\ shown'[i] = f[i - m].of
    <2>1. /\ m \in Nat /\ DOMAIN shown = 1..m
          /\ shown' \in Seq(Calls) /\ DOMAIN shown' = 1..(m + n)
          /\ \A i \in 1..(m + n) :
                \/ i \in 1..m /\ shown'[i] = shown[i]
                \/ i - m \in 1..n /\ shown'[i] = print(f)[i - m]
        BY <1>1, <1>4, <1>5, Joined
    <2> QED
        BY <1>5, <2>1
<1> HIDE DEF m
<1>7. last' >= last /\ last' \in Nat /\ \A r \in rows : r.id <= last'
    BY <1>1, <1>2, <1>4
<1>8. ASSUME NEW i \in 1..(m + n), NEW j \in 1..(m + n), i < j
      PROVE  <<shown'[i], shown'[j]>> \in before
    <2>1. CASE j \in 1..m /\ shown'[j] = shown[j]
        <3>1. i \in 1..m /\ shown'[i] = shown[i]
            BY <1>2, <1>6, <1>8, <2>1
        <3> QED
            BY <1>6, <1>8, <2>1, <3>1 DEF ShownInOrder
    <2>2. CASE j - m \in 1..n /\ shown'[j] = f[j - m].of
        <3>1. f[j - m] \in rows /\ f[j - m] \in table
            BY <1>2, <2>2
        <3>2. CASE i \in 1..m /\ shown'[i] = shown[i]
            BY <1>6, <2>2, <3>1, <3>2 DEF ByAge
        <3>3. CASE i - m \in 1..n /\ shown'[i] = f[i - m].of
            <4>1. f[i - m] \in table /\ i - m < j - m
                BY <1>2, <1>6, <1>8, <3>3
            <4>2. f[i - m].id < f[j - m].id
                BY <1>3, <2>2, <3>3, <4>1
            <4> QED
                BY <2>2, <3>1, <3>3, <4>1, <4>2 DEF ByAge
        <3> QED
            BY <1>6, <3>2, <3>3
    <2> QED
        BY <1>6, <2>1, <2>2
<1>9. ASSUME NEW i \in 1..(m + n), NEW r \in table, r.id > last'
      PROVE  <<shown'[i], r.of>> \in before
    <2>1. r.id \in Nat /\ r.id > last
        BY <1>4, <1>7, <1>9
    <2>2. CASE i \in 1..m /\ shown'[i] = shown[i]
        BY <1>6, <2>1, <2>2 DEF ByAge
    <2>3. CASE i - m \in 1..n /\ shown'[i] = f[i - m].of
        <3>1. f[i - m] \in rows /\ f[i - m] \in table
            BY <1>2, <2>3
        <3>2. f[i - m].id < r.id
            BY <1>4, <1>7, <1>9, <3>1
        <3> QED
            BY <2>3, <3>1, <3>2 DEF ByAge
    <2> QED
        BY <1>6, <2>2, <2>3
<1> QED
    BY <1>6, <1>8, <1>9 DEF ByAge, ShownInOrder

\* Every step keeps the order; retention only takes rows away.
LEMMA OrderStep ==
    ASSUME TailIInv, ByAge, ShownInOrder, [TailNext]_allVars
    PROVE  ByAge' /\ ShownInOrder'
<1>1. CASE (OffTable /\ UNCHANGED <<table, tail, last, shown, history>>) \/ TailEnds
           \/ UNCHANGED allVars
    BY <1>1 DEF TailEnds, allVars, history, ByAge, ShownInOrder
<1>2. CASE DeleteRow
    <2>1. table' \subseteq table /\ UNCHANGED <<last, shown, before>>
        BY <1>2 DEF DeleteRow, follower
    <2> QED
        BY <2>1 DEF ByAge, ShownInOrder
<1>3. CASE TailStarts
    <2>1. Newest(Recent) \in SUBSET table /\ Encode(Newest(Recent)) /\ last = 0
          /\ UNCHANGED <<table, before>>
        BY <1>3 DEF TailStarts, TailIInv, Printed, Newest
    <2>2. \A r \in Newest(Recent) : r.id > last
        BY <2>1 DEF TailIInv, TailTypeOK, Rows
    <2> QED
        BY <2>1, <2>2, EncodeOrder
<1>4. CASE TailPolls
    <2> DEFINE id == Max({last, 1})
               rows == After(id, Page)
    <2>1. last \in Nat
        BY DEF TailIInv, TailTypeOK
    <2>2. id \in Nat /\ id >= last
        <3>1. {last, 1} \in SUBSET (0..(last + 1)) /\ last + 1 \in Nat
            BY <2>1
        <3>2. id \in {last, 1} /\ \A x \in {last, 1} : id >= x
            BY <3>1, GreatestOf
        <3> QED
            BY <2>1, <3>2
    <2>3. Encode(rows) /\ UNCHANGED <<table, before>>
        BY <1>4 DEF TailPolls, history
    <2> HIDE DEF id
    <2>4. rows \in SUBSET table /\ \A r \in rows : r.id > id /\ r.id \in Nat
        BY DEF After, TailIInv, TailTypeOK, Rows
    <2> HIDE DEF rows
    <2>5. \A r \in rows : r.id > last
        BY <2>1, <2>2, <2>4
    <2> QED
        BY <2>3, <2>4, <2>5, EncodeOrder
<1> QED
    BY <1>1, <1>2, <1>3, <1>4, InsertOrder DEF TailNext

-----------------------------------------------------------------------------
(* The theorems *)

\* The invariant holds while the log is empty and nothing follows it.
LEMMA TailInitInv == TailInit => TailIInv
<1> SUFFICES ASSUME TailInit PROVE TailIInv
    OBVIOUS
<1>1. IInv
    BY InitInv DEF TailInit
<1>2. ch = <<>> /\ writer = None /\ Len(ch) = 0
    BY DEF TailInit, Init
<1>3. Held
    BY <1>2 DEF Held
<1>4. /\ table = {} /\ tail = "off" /\ last = 0 /\ shown = <<>> /\ DOMAIN shown = {}
      /\ highest = 0 /\ passed = {} /\ again = {} /\ before = {}
    BY DEF TailInit
<1>5. TailTypeOK /\ highest \in Nat /\ ShownOnce /\ NoneLeftOut
    BY <1>4 DEF TailTypeOK, ShownOnce, NoneLeftOut
<1>6. OneRow /\ Printed
    BY <1>4, FS_EmptySet DEF OneRow, Printed
<1> QED
    BY <1>1, <1>3, <1>5, <1>6 DEF TailIInv

\* What the log and the tail that follows it keep up.
THEOREM TailInvariance == TailSpec => []TailIInv
<1>1. ASSUME TailIInv, [TailNext]_allVars
      PROVE  TailIInv'
    <2>1. CASE OffTable /\ UNCHANGED <<table, tail, last, shown, history>>
        BY <1>1, <2>1, OffTableStep
    <2>2. CASE TailEnds
        <3>1. IInv' /\ Held'
            BY <1>1, <2>2, QuietSteps, QuietHeld DEF TailIInv, TailEnds
        <3>2. TailTypeOK' /\ (highest \in Nat)' /\ ShownOnce' /\ NoneLeftOut'
            BY <1>1, <2>2 DEF TailIInv, TailTypeOK, ShownOnce, NoneLeftOut, TailEnds, history
        <3>3. OneRow' /\ Printed'
            BY <1>1, <2>2 DEF TailIInv, OneRow, Printed, TailEnds, vars
        <3> QED
            BY <3>1, <3>2, <3>3 DEF TailIInv
    <2>3. CASE UNCHANGED allVars
        <3>1. IInv' /\ Held'
            BY <1>1, <2>3, QuietSteps, QuietHeld DEF TailIInv, allVars
        <3> QED
            BY <1>1, <2>3, <3>1, OffTableRows DEF allVars, vars
    <2> QED
        BY <1>1, <2>1, <2>2, <2>3, InsertRowStep, DeleteRowStep, TailStartsStep, TailPollsStep
        DEF TailNext
<1> QED
    BY <1>1, TailInitInv, PTL DEF TailSpec

\* The table and the process that follows it keep their types.
THEOREM TailTypeCorrect == TailSpec => []TailTypeOK
<1>1. TailIInv => TailTypeOK
    BY DEF TailIInv
<1> QED
    BY <1>1, TailInvariance, PTL

\* No row is printed twice, whatever is inserted and deleted between the queries.
THEOREM EachShownOnce == TailSpec => []ShownOnce
<1>1. TailIInv => ShownOnce
    BY DEF TailIInv
<1> QED
    BY <1>1, TailInvariance, PTL

\* No row is left out that the follower has gone past, but for the exceptions that
\* NoneLeftOut names.
THEOREM NothingLeftOut == TailSpec => []NoneLeftOut
<1>1. TailIInv => NoneLeftOut
    BY DEF TailIInv
<1> QED
    BY <1>1, TailInvariance, PTL

\* What is printed was written in this order, whatever ids are given again between two
\* queries.
THEOREM PrintedInOrder == TailSpec => []ShownInOrder
<1>1. TailInit => ByAge /\ ShownInOrder
    <2>1. ASSUME TailInit PROVE table = {} /\ DOMAIN shown = {}
        BY <2>1 DEF TailInit
    <2> QED
        BY <2>1 DEF ByAge, ShownInOrder
<1>2. TailIInv /\ (ByAge /\ ShownInOrder) /\ [TailNext]_allVars => (ByAge /\ ShownInOrder)'
    BY OrderStep
<1> QED
    BY <1>1, <1>2, TailInvariance, PTL DEF TailSpec

\* The database and the tail leave the log to itself: a log that is followed is a log,
\* and what is proved of Spec holds of it.
THEOREM TailRunsLog == TailSpec => Spec
<1>1. ASSUME [TailNext]_allVars
      PROVE  [Next]_vars
    BY <1>1 DEF TailNext, InsertRow, DeleteRow, TailStarts, TailPolls, TailEnds, allVars, Next,
                vars
<1>2. TailInit => Init
    BY DEF TailInit
<1> QED
    BY <1>1, <1>2, PTL DEF TailSpec, Spec

\* The queue of rows is kept next to a tail that follows it (KeepsQueue).
THEOREM TailKeepsQueue == TailSpec => KeepsQueue
BY TailRunsLog, ImplementsQueue, PTL
=============================================================================
