------------------------------ MODULE Lifecycle ------------------------------
(***************************************************************************)
(* What the supervisor promises about the life of an upstream, with no run *)
(* loops, pings, timers or handlers: which processes and which session it  *)
(* may have in which of its states, and which states may follow which.     *)
(*                                                                         *)
(* A process group is launched only by an upstream that is starting and    *)
(* has nothing left of an earlier run, a session is opened only on it, and *)
(* every change of state but that to Ready, and but what Stop changes,     *)
(* comes after both are gone.                                              *)
(***************************************************************************)
CONSTANTS
    Ids,        \* the upstreams
    Sessions,   \* names for sessions
    None        \* no session

VARIABLES
    state,      \* "starting", "ready", "failed", "stopped" or "needsLogin"
    session,    \* the session that calls are sent to
    procs,      \* the sessions of which a process group exists
    stopping    \* Stop has been called

vars == <<state, session, procs, stopping>>

Init ==
    /\ state = [u \in Ids |-> "starting"]
    /\ session = [u \in Ids |-> None]
    /\ procs = [u \in Ids |-> {}]
    /\ stopping = FALSE

\* Nothing is left of an earlier run.
Bare(u) == session[u] = None /\ procs[u] = {}

Become(u, st) ==
    /\ state' = [state EXCEPT ![u] = st]
    /\ UNCHANGED <<session, procs, stopping>>

-----------------------------------------------------------------------------
(* One run *)

Launch(u, s) ==
    /\ state[u] = "starting" /\ Bare(u)
    /\ procs' = [procs EXCEPT ![u] = {s}]
    /\ UNCHANGED <<state, session, stopping>>

Open(u, s) ==
    /\ state[u] = "starting" /\ session[u] = None /\ procs[u] \subseteq {s}
    /\ session' = [session EXCEPT ![u] = s]
    /\ UNCHANGED <<state, procs, stopping>>

BecomeReady(u) == state[u] = "starting" /\ session[u] # None /\ Become(u, "ready")

\* The child exits with all that it has started, or its group is killed.
Sweep(u) ==
    /\ procs' = [procs EXCEPT ![u] = {}]
    /\ UNCHANGED <<state, session, stopping>>

\* The session is given up after its processes.
Close(u) ==
    /\ procs[u] = {}
    /\ session' = [session EXCEPT ![u] = None]
    /\ UNCHANGED <<state, procs, stopping>>

-----------------------------------------------------------------------------
(* Between runs *)

Restart(u) == state[u] \in {"starting", "ready"} /\ Bare(u) /\ Become(u, "starting")

NeedsLogin(u) == state[u] = "starting" /\ Bare(u) /\ Become(u, "needsLogin")

LoggedIn(u) == state[u] = "needsLogin" /\ Bare(u) /\ Become(u, "starting")

GiveUp(u) ==
    state[u] \in {"starting", "ready"} /\ ~stopping /\ Bare(u) /\ Become(u, "failed")

Stop ==
    /\ stopping' = TRUE
    /\ UNCHANGED <<state, session, procs>>

\* A serving upstream is Stopped before its session is closed.
Halt(u) == state[u] # "failed" /\ stopping /\ Become(u, "stopped")

-----------------------------------------------------------------------------
Runs(u) ==
    \/ \E s \in Sessions : Launch(u, s) \/ Open(u, s)
    \/ BecomeReady(u) \/ Sweep(u) \/ Close(u)

Changes(u) == Restart(u) \/ NeedsLogin(u) \/ LoggedIn(u) \/ GiveUp(u) \/ Halt(u)

Next == Stop \/ \E u \in Ids : Runs(u) \/ Changes(u)

Spec == Init /\ [][Next]_vars
=============================================================================
