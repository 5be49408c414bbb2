-------------------------------- MODULE Names --------------------------------
(***************************************************************************)
(* Names of tools.  A namespace offers the tool t of the server s as       *)
(* s__t; strings.Cut takes such a name apart at its first separator.       *)
(* Names are sequences of characters: that "_" may occur in them, next to  *)
(* the separator too, is what these operators are about.                   *)
(***************************************************************************)
EXTENDS Integers, Sequences

Underscore == "_"
Separator == <<Underscore, Underscore>>

FullName(s, t) == s \o Separator \o t

\* Where the separator occurs.
Cuts(name) == {k \in 1..(Len(name) - 1) : name[k] = Underscore /\ name[k + 1] = Underscore}

Before(name, k) == SubSeq(name, 1, k - 1)
After(name, k) == SubSeq(name, k + 2, Len(name))

\* Faulty variant: the last separator.
Cut_Last(name) ==
    LET k == CHOOSE k \in Cuts(name) : \A j \in Cuts(name) : j <= k
    IN  [server |-> Before(name, k), tool |-> After(name, k)]

\* strings.Cut of a name that has a separator.
Cut(name) ==
    LET k == CHOOSE k \in Cuts(name) : \A j \in Cuts(name) : k <= j
    IN  [server |-> Before(name, k), tool |-> After(name, k)]

\* Server names the first separator of s__t cannot fall into.
Unambiguous(s) == Cuts(s) = {} /\ (s # <<>> => s[Len(s)] # Underscore)

\* nameRule: letters, digits, "_" and "-", the first a letter or a digit.
nameRule(s) == s # <<>> /\ s[1] \notin {Underscore, "-"}
=============================================================================
