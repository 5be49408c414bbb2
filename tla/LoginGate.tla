------------------------------ MODULE LoginGate ------------------------------
(***************************************************************************)
(* What Wait and awaitOAuth promise those who need credentials, with no    *)
(* channels, logins, requests or store: a gate that is open while the      *)
(* upstream has credentials.  Who comes to an open gate is called at once, *)
(* who waits at a closed one is called by the next login, and a call is    *)
(* not taken back when the credentials are dropped before it is heard.     *)
(***************************************************************************)
CONSTANTS
    Sleepers,   \* who may wait
    Patient     \* those of them that leave only when they are called

VARIABLES
    open,       \* the upstream has credentials
    at          \* where each sleeper is: "away", "waiting" or "called"

vars == <<open, at>>

Away == [w \in Sleepers |-> "away"]

Init == open \in BOOLEAN /\ at = Away

Come(w) ==
    /\ at[w] = "away"
    /\ at' = [at EXCEPT ![w] = IF open THEN "called" ELSE "waiting"]
    /\ UNCHANGED open

Go(w) ==
    /\ at[w] = "called" \/ w \notin Patient
    /\ at' = [at EXCEPT ![w] = "away"]
    /\ UNCHANGED open

\* A login leaves nobody waiting.
Open ==
    /\ open' = TRUE
    /\ at' = [w \in Sleepers |-> IF at[w] = "waiting" THEN "called" ELSE at[w]]

Shut == open' = FALSE /\ UNCHANGED at

\* A new process.
Reset == open' \in BOOLEAN /\ at' = Away

Next == Open \/ Shut \/ Reset \/ \E w \in Sleepers : Come(w) \/ Go(w)

Spec == Init /\ [][Next]_vars
=============================================================================
