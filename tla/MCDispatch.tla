----------------------------- MODULE MCDispatch -----------------------------
(* Small instances of Dispatch: three requests, two upstreams. *)
EXTENDS Dispatch, TLC

CONSTANTS c1, c2, c3, n1, n2, u1, u2

\* The requests are interchangeable.
CallSymmetry == Permutations(Calls)

\* One namespace for both upstreams, or one each.
OneUpstream == u1 :> n1
OneNamespace == u1 :> n1 @@ u2 :> n1
TwoNamespaces == u1 :> n1 @@ u2 :> n2

NoOverride == [s \in Namespaces \cup Upstreams |-> 0]
NoNamespaceOverride == [n \in Namespaces |-> 0]
NoServerOverride == [u \in Upstreams |-> 0]

\* n1 takes one call although the default is no limit.
N1Override == [n \in Namespaces |-> IF n = n1 THEN 1 ELSE 0]

\* u2 takes one call although the default is two.
U2Override == [u \in Upstreams |-> IF u = u2 THEN 1 ELSE 0]
=============================================================================
