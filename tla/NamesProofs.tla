------------------------------ MODULE NamesProofs ------------------------------
(***************************************************************************)
(* That call_tool takes the names it is given apart as they were put       *)
(* together, for names of any length over any alphabet.                    *)
(***************************************************************************)
EXTENDS Names, SequenceTheorems, TLAPS

\* The characters of a full name.
LEMMA FullNameAt ==
    ASSUME NEW Char, Underscore \in Char, NEW s \in Seq(Char), NEW t \in Seq(Char)
    PROVE  /\ FullName(s, t) \in Seq(Char)
           /\ Len(FullName(s, t)) = Len(s) + 2 + Len(t)
           /\ \A k \in 1..Len(s) : FullName(s, t)[k] = s[k]
           /\ FullName(s, t)[Len(s) + 1] = Underscore /\ FullName(s, t)[Len(s) + 2] = Underscore
           /\ \A k \in (Len(s) + 3)..(Len(s) + 2 + Len(t)) : FullName(s, t)[k] = t[k - (Len(s) + 2)]
<1> DEFINE front == s \o Separator
           name == front \o t
<1>1. Separator \in Seq(Char) /\ Len(Separator) = 2
    BY DEF Separator
<1>2. Separator[1] = Underscore /\ Separator[2] = Underscore
    BY DEF Separator
<1>3. Len(s) \in Nat /\ Len(t) \in Nat
    OBVIOUS
<1>4. /\ front \in Seq(Char) /\ Len(front) = Len(s) + 2
      /\ \A k \in 1..(Len(s) + 2) :
            front[k] = IF k <= Len(s) THEN s[k] ELSE Separator[k - Len(s)]
    <2>1. /\ front \in Seq(Char) /\ Len(front) = Len(s) + Len(Separator)
          /\ \A k \in 1..Len(s) + Len(Separator) :
                front[k] = IF k <= Len(s) THEN s[k] ELSE Separator[k - Len(s)]
        BY <1>1, ConcatProperties, Zenon
    <2> QED
        BY <1>1, <2>1
<1>5. \A k \in 1..Len(s) : front[k] = s[k]
    BY <1>3, <1>4
<1>6. front[Len(s) + 1] = Underscore /\ front[Len(s) + 2] = Underscore
    <2>1. Len(s) + 1 - Len(s) = 1 /\ Len(s) + 2 - Len(s) = 2
        BY <1>3
    <2>2. front[Len(s) + 1] = Separator[Len(s) + 1 - Len(s)]
        BY <1>3, <1>4
    <2>3. front[Len(s) + 2] = Separator[Len(s) + 2 - Len(s)]
        BY <1>3, <1>4
    <2> QED
        BY <1>2, <2>1, <2>2, <2>3
<1> HIDE DEF front
<1>7. /\ name \in Seq(Char) /\ Len(name) = Len(s) + 2 + Len(t)
      /\ \A k \in 1..(Len(s) + 2 + Len(t)) :
            name[k] = IF k <= Len(s) + 2 THEN front[k] ELSE t[k - (Len(s) + 2)]
    <2>1. /\ name \in Seq(Char) /\ Len(name) = Len(front) + Len(t)
          /\ \A k \in 1..Len(front) + Len(t) :
                name[k] = IF k <= Len(front) THEN front[k] ELSE t[k - Len(front)]
        <3>1. front \in Seq(Char)
            BY <1>4
        <3> QED
            BY <3>1, ConcatProperties, Zenon
    <2> QED
        BY <1>4, <2>1
<1> HIDE DEF name
<1>8. \A k \in 1..(Len(s) + 2) : name[k] = front[k]
    BY <1>3, <1>7
<1>9. \A k \in (Len(s) + 3)..(Len(s) + 2 + Len(t)) : name[k] = t[k - (Len(s) + 2)]
    BY <1>3, <1>7
<1>10. FullName(s, t) = name
    BY DEF FullName, front, name
<1> QED
    BY <1>3, <1>5, <1>6, <1>7, <1>8, <1>9, <1>10

\* The first separator of a name is the one after the server, if the server's name
\* neither has one nor ends in half of one.
LEMMA FirstCut ==
    ASSUME NEW Char, Underscore \in Char, NEW s \in Seq(Char), NEW t \in Seq(Char), Unambiguous(s)
    PROVE  LET cuts == Cuts(FullName(s, t)) IN
           /\ Len(s) + 1 \in cuts
           /\ \A j \in cuts : Len(s) + 1 <= j
<1> DEFINE name == FullName(s, t)
<1>1. /\ Len(name) = Len(s) + 2 + Len(t)
      /\ \A k \in 1..Len(s) : name[k] = s[k]
      /\ name[Len(s) + 1] = Underscore /\ name[Len(s) + 2] = Underscore
    BY FullNameAt
<1>2. Len(s) \in Nat /\ Len(t) \in Nat
    OBVIOUS
<1> HIDE DEF name
<1>3. Len(s) + 1 \in Cuts(name)
    BY <1>1, <1>2 DEF Cuts
<1>4. ASSUME NEW j \in Cuts(name), j < Len(s) + 1
      PROVE  FALSE
    <2>1. j \in 1..Len(s) /\ name[j] = Underscore /\ name[j + 1] = Underscore
        BY <1>1, <1>2, <1>4 DEF Cuts
    <2>2. CASE j = Len(s)
        <3>1. s # <<>> /\ s[Len(s)] = Underscore
            BY <1>1, <1>2, <2>1, <2>2
        <3> QED
            BY <3>1 DEF Unambiguous
    <2>3. CASE j < Len(s)
        <3>1. j \in Cuts(s)
            BY <1>1, <1>2, <2>1, <2>3 DEF Cuts
        <3> QED
            BY <3>1 DEF Unambiguous
    <2> QED
        BY <1>2, <2>1, <2>2, <2>3
<1>5. \A j \in Cuts(name) : j \in Int
    BY DEF Cuts
<1>6. \A j \in Cuts(name) : Len(s) + 1 <= j
    BY <1>2, <1>4, <1>5
<1> QED
    BY <1>3, <1>6 DEF name

\* What is before and after that separator.
LEMMA Parts ==
    ASSUME NEW Char, Underscore \in Char, NEW s \in Seq(Char), NEW t \in Seq(Char)
    PROVE  /\ Before(FullName(s, t), Len(s) + 1) = s
           /\ After(FullName(s, t), Len(s) + 1) = t
<1> DEFINE name == FullName(s, t)
<1>1. /\ name \in Seq(Char) /\ Len(name) = Len(s) + 2 + Len(t)
      /\ \A k \in 1..Len(s) : name[k] = s[k]
      /\ \A k \in (Len(s) + 3)..(Len(s) + 2 + Len(t)) : name[k] = t[k - (Len(s) + 2)]
    <2>1. name \in Seq(Char) /\ Len(name) = Len(s) + 2 + Len(t)
        BY FullNameAt, Zenon
    <2>2. \A k \in 1..Len(s) : name[k] = s[k]
        BY FullNameAt, Zenon
    <2>3. \A k \in (Len(s) + 3)..(Len(s) + 2 + Len(t)) : name[k] = t[k - (Len(s) + 2)]
        BY FullNameAt, Zenon
    <2> QED
        BY <2>1, <2>2, <2>3
<1>2. Len(s) \in Nat /\ Len(t) \in Nat
    OBVIOUS
<1> HIDE DEF name
<1>3. SubSeq(name, 1, Len(s)) = s
    <2>1. SubSeq(name, 1, Len(s)) \in Seq(Char) /\ Len(SubSeq(name, 1, Len(s))) = Len(s)
        BY <1>1, <1>2
    <2>2. \A k \in 1..Len(s) : SubSeq(name, 1, Len(s))[k] = s[k]
        BY <1>1, <1>2
    <2> QED
        BY <2>1, <2>2, SeqEqual
<1>4. SubSeq(name, Len(s) + 3, Len(name)) = t
    <2>1. /\ SubSeq(name, Len(s) + 3, Len(name)) \in Seq(Char)
          /\ Len(SubSeq(name, Len(s) + 3, Len(name))) = Len(t)
        BY <1>1, <1>2
    <2>2. ASSUME NEW k \in 1..Len(t)
          PROVE  SubSeq(name, Len(s) + 3, Len(name))[k] = t[k]
        <3>1. /\ Len(s) + 2 + k \in (Len(s) + 3)..(Len(s) + 2 + Len(t))
              /\ Len(s) + 2 + k - (Len(s) + 2) = k
            BY <1>2
        <3>2. name[Len(s) + 2 + k] = t[k]
            BY <1>1, <3>1
        <3>3. SubSeq(name, Len(s) + 3, Len(name))[k] = name[Len(s) + 2 + k]
            BY <1>1, <1>2, <3>1
        <3> QED
            BY <3>2, <3>3
    <2> QED
        BY <2>1, <2>2, SeqEqual
<1>5. Len(s) + 1 - 1 = Len(s) /\ Len(s) + 1 + 2 = Len(s) + 3
    BY <1>2
<1> QED
    BY <1>3, <1>4, <1>5 DEF Before, After, name

\* strings.Cut gives back the server and the tool that a full name was made of, unless
\* the server's name has a separator in it or ends in "_".
THEOREM CutOfFullName ==
    ASSUME NEW Char, Underscore \in Char, NEW s \in Seq(Char), NEW t \in Seq(Char), Unambiguous(s)
    PROVE  Cut(FullName(s, t)) = [server |-> s, tool |-> t]
<1> DEFINE cuts == Cuts(FullName(s, t))
           k == CHOOSE k \in cuts : \A j \in cuts : k <= j
<1>1. Len(s) + 1 \in cuts /\ \A j \in cuts : Len(s) + 1 <= j
    BY FirstCut
<1>2. k \in cuts /\ \A j \in cuts : k <= j
    BY <1>1
<1>3. \A j \in cuts : j \in Int
    BY DEF Cuts
<1>4. k = Len(s) + 1
    <2> HIDE DEF k, cuts
    <2> QED
        BY <1>1, <1>2, <1>3
<1> QED
    BY <1>4, Parts DEF Cut

\* Two tools of servers with such names never share a full name: what a sync registers
\* under a name is the only tool of that name.
THEOREM FullNamesDiffer ==
    ASSUME NEW Char, Underscore \in Char,
           NEW s1 \in Seq(Char), NEW t1 \in Seq(Char), Unambiguous(s1),
           NEW s2 \in Seq(Char), NEW t2 \in Seq(Char), Unambiguous(s2),
           FullName(s1, t1) = FullName(s2, t2)
    PROVE  s1 = s2 /\ t1 = t2
<1>1. [server |-> s1, tool |-> t1] = [server |-> s2, tool |-> t2]
    BY CutOfFullName
<1> QED
    BY <1>1
=============================================================================
