----------------------------- MODULE CallLimits -----------------------------
(***************************************************************************)
(* What the gateway promises about calls and limits, with no semaphores,   *)
(* breakers or contexts.  A request is accepted, it runs upstream at most  *)
(* once and only when each of its three scopes has room, and it is         *)
(* answered (and recorded) exactly once, whatever happened to it.          *)
(***************************************************************************)
EXTENDS Limits

VARIABLES
    stage,      \* "idle", "accepted", "running" or "left" of each request
    dest        \* the upstream each request names

vars == <<stage, dest>>

Running(s) == {c \in Calls : stage[c] = "running" /\ s \in ScopesOf(dest[c])}
Room(s) == Limited(s) => Cardinality(Running(s)) < Capacity(s)

Init ==
    /\ stage = [c \in Calls |-> "idle"]
    /\ dest \in [Calls -> Upstreams]

Accept(c, u) ==
    /\ stage[c] = "idle"
    /\ stage' = [stage EXCEPT ![c] = "accepted"]
    /\ dest' = [dest EXCEPT ![c] = u]

\* An open circuit answers without the request ever waiting for room.
Refuse(c, u) ==
    /\ stage[c] = "idle"
    /\ stage' = [stage EXCEPT ![c] = "left"]
    /\ dest' = [dest EXCEPT ![c] = u]

Enter(c) ==
    /\ stage[c] = "accepted"
    /\ \A s \in ScopesOf(dest[c]) : Room(s)
    /\ stage' = [stage EXCEPT ![c] = "running"]
    /\ UNCHANGED dest

Leave(c) ==
    /\ stage[c] \in {"accepted", "running"}
    /\ stage' = [stage EXCEPT ![c] = "left"]
    /\ UNCHANGED dest

Answer(c) ==
    /\ stage[c] = "left"
    /\ stage' = [stage EXCEPT ![c] = "idle"]
    /\ UNCHANGED dest

Next ==
    \E c \in Calls :
        \/ \E u \in Upstreams : Accept(c, u) \/ Refuse(c, u)
        \/ Enter(c)
        \/ Leave(c)
        \/ Answer(c)

Spec == Init /\ [][Next]_vars
=============================================================================
