---------------------------- MODULE MCSupervisor ----------------------------
(* Small instances of Supervisor. *)
EXTENDS Supervisor, TLC

CONSTANTS a, b, s1, s2, v1, v2

\* The names of sessions and of tool lists are interchangeable.
Symmetry == Permutations(Sessions) \cup Permutations(Versions)

\* States that Start comes to when all loops but one have failed before that one takes
\* its first step: loops share nothing but the context, so one at a time is enough.
OneLoopInit ==
    \E last \in Ids :
        /\ pc = [u \in Ids |-> IF u = last THEN "begin" ELSE "exit"]
        /\ state = [u \in Ids |-> IF u = last THEN "starting" ELSE "failed"]
        /\ failures = [u \in Ids |-> IF u = last THEN 0 ELSE MaxFailures]
        /\ first = [u \in Ids |-> u # last]
        /\ owes = [u \in Ids |-> FALSE]
        /\ session = [u \in Ids |-> None] /\ current = [u \in Ids |-> None]
        /\ tools = [u \in Ids |-> None] /\ snap = [u \in Ids |-> None]
        /\ pingBroken = [u \in Ids |-> FALSE] /\ pinged = [u \in Ids |-> FALSE]
        /\ quiet = [u \in Ids |-> FALSE] /\ stable = [u \in Ids |-> FALSE]
        /\ handler = [u \in Ids |-> [s \in Sessions |-> Idle]]
        /\ pending = [u \in Ids |-> [s \in Sessions |-> FALSE]]
        /\ ctxDone = FALSE
        /\ alive = [u \in Ids |-> FALSE]
        /\ group = [u \in Ids |-> [s \in Sessions |-> None]]
        /\ catalog \in [Ids -> Versions]
        /\ creds \in [Ids -> BOOLEAN]

OneLoopSpec == OneLoopInit /\ [][Next]_vars /\ LoopFairness /\ NotifyFairness
=============================================================================
