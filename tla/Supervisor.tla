----------------------------- MODULE Supervisor -----------------------------
(***************************************************************************)
(* The supervisor's run loops (Upstream.run, runOnce, awaitOAuth), the     *)
(* list_changed handlers that refresh the tool cache next to them, and     *)
(* Supervisor.Start and Stop.  One goroutine runs the loop of an upstream; *)
(* every session has at most one handler goroutine at a time, since the    *)
(* SDK delivers the notifications of a session in order.                   *)
(*                                                                         *)
(* A step is a critical section of Upstream.mu or the return of a blocking *)
(* call.  Reported to nobody and left out: lastErr, the restarts counter   *)
(* and the logs.                                                           *)
(***************************************************************************)
EXTENDS Integers, FiniteSets

CONSTANTS
    Ids,            \* the upstreams
    Stdio,          \* those that are child processes; the rest are remote
    OAuth,          \* the remote ones that wait for a login
    NoPing,         \* those whose Spec.NoPing is set
    MaxFailures,    \* Options.MaxFailures
    Sessions,       \* names for sessions, reused once nothing refers to one
    Versions,       \* tool lists a server may have
    ListMayFail,    \* tools/list of a live session may return an error
    SlowStart       \* where StableAfter may pass before a run is Ready

None == "none"

ASSUME SupervisorAssumption ==
    /\ Stdio \subseteq Ids /\ OAuth \subseteq Ids \ Stdio /\ NoPing \subseteq Ids
    /\ MaxFailures \in Nat \ {0}
    /\ None \notin Sessions /\ None \notin Versions
    /\ ListMayFail \in BOOLEAN /\ SlowStart \subseteq {"wait", "list"}

VARIABLES
    pc,         \* where the run loop of each upstream is
    owes,       \* setState has set the state and is in Options.OnChange
    state,      \* Upstream.state
    session,    \* Upstream.session (cmd and pid are set and cleared with it)
    tools,      \* Upstream.tools
    failures,   \* Upstream.failures
    pingBroken, \* Upstream.pingBroken
    current,    \* the session (and child) of this runOnce
    snap,       \* what the first refreshTools of this session has read
    pinged,     \* a ping has succeeded on this session
    quiet,      \* the ping ticker is stopped
    stable,     \* this run has lasted for StableAfter
    first,      \* signalFirst has been called
    handler,    \* the list_changed handler of each session
    pending,    \* a list_changed notification of each session is queued
    ctxDone,    \* Supervisor.Stop has cancelled the context
    alive,      \* the server answers on the current session
    group,      \* process group of each session: its child, or what it left
    catalog,    \* the tool list the server has
    creds       \* the OAuth provider has credentials

loop == <<pc, owes, state, failures, first>>
run == <<current, snap, pinged, quiet, stable>>
cache == <<session, tools, pingBroken>>
handlers == <<handler, pending>>
world == <<alive, group, catalog, creds>>
vars == <<pc, owes, state, session, tools, failures, pingBroken, current, snap, pinged,
          quiet, stable, first, handler, pending, ctxDone, alive, group, catalog, creds>>

States == {"starting", "ready", "failed", "stopped", "needsLogin"}
Places == {"begin", "login", "park", "wait", "spawn", "connect", "list", "store", "ready",
           "settle", "serve", "ping", "close", "clear", "account", "backoff", "leave", "exit"}
Lists == Versions \cup {None}
Handlers == [pc : {"idle", "list", "store", "notify"}, of : Sessions \cup {None}, snap : Lists]
Idle == [pc |-> "idle", of |-> None, snap |-> None]

TypeOK ==
    /\ pc \in [Ids -> Places]
    /\ owes \in [Ids -> BOOLEAN]
    /\ state \in [Ids -> States]
    /\ session \in [Ids -> Sessions \cup {None}]
    /\ tools \in [Ids -> Lists]
    /\ failures \in [Ids -> 0..MaxFailures]
    /\ pingBroken \in [Ids -> BOOLEAN]
    /\ current \in [Ids -> Sessions \cup {None}]
    /\ snap \in [Ids -> Lists]
    /\ pinged \in [Ids -> BOOLEAN]
    /\ quiet \in [Ids -> BOOLEAN]
    /\ stable \in [Ids -> BOOLEAN]
    /\ first \in [Ids -> BOOLEAN]
    /\ handler \in [Ids -> [Sessions -> Handlers]]
    /\ pending \in [Ids -> [Sessions -> BOOLEAN]]
    /\ ctxDone \in BOOLEAN
    /\ alive \in [Ids -> BOOLEAN]
    /\ group \in [Ids -> [Sessions -> {None, "child", "orphans"}]]
    /\ catalog \in [Ids -> Versions]
    /\ creds \in [Ids -> BOOLEAN]

\* Start has launched the run loops and is waiting for their first signals.
Init ==
    /\ pc = [u \in Ids |-> "begin"]
    /\ owes = [u \in Ids |-> FALSE]
    /\ state = [u \in Ids |-> "starting"]
    /\ session = [u \in Ids |-> None]
    /\ tools = [u \in Ids |-> None]
    /\ failures = [u \in Ids |-> 0]
    /\ pingBroken = [u \in Ids |-> FALSE]
    /\ current = [u \in Ids |-> None]
    /\ snap = [u \in Ids |-> None]
    /\ pinged = [u \in Ids |-> FALSE]
    /\ quiet = [u \in Ids |-> FALSE]
    /\ stable = [u \in Ids |-> FALSE]
    /\ first = [u \in Ids |-> FALSE]
    /\ handler = [u \in Ids |-> [s \in Sessions |-> Idle]]
    /\ pending = [u \in Ids |-> [s \in Sessions |-> FALSE]]
    /\ ctxDone = FALSE
    /\ alive = [u \in Ids |-> FALSE]
    /\ group = [u \in Ids |-> [s \in Sessions |-> None]]
    /\ catalog \in [Ids -> Versions]
    /\ creds \in [Ids -> BOOLEAN]

-----------------------------------------------------------------------------
(* Helpers *)

Goto(u, place) == pc' = [pc EXCEPT ![u] = place]

\* The run loop is at a place and not inside OnChange.
At(u, place) == pc[u] = place /\ ~owes[u]

\* setState: the state is set under the lock, then OnChange is called.
setState(u, st) ==
    /\ state' = [state EXCEPT ![u] = st]
    /\ owes' = [owes EXCEPT ![u] = TRUE]

signalFirst(u) == first' = [first EXCEPT ![u] = TRUE]

killGroup(u, s) == group' = [group EXCEPT ![u][s] = None]

\* OnChange returns to the run loop.
Notified(u) ==
    /\ owes[u]
    /\ owes' = [owes EXCEPT ![u] = FALSE]
    /\ UNCHANGED <<pc, state, failures, first, run, cache, handlers, ctxDone, world>>

-----------------------------------------------------------------------------
(* runOnce: until the session is Ready *)

Begin(u) ==
    /\ At(u, "begin")
    /\ stable' = [stable EXCEPT ![u] = FALSE]
    /\ Goto(u, IF u \in OAuth THEN "login" ELSE "spawn")
    /\ UNCHANGED <<owes, state, failures, first, current, snap, pinged, quiet, cache,
                   handlers, ctxDone, world>>

\* awaitOAuth: the provider has credentials, has none, or fails.
HasLogin(u) ==
    /\ At(u, "login") /\ creds[u]
    /\ Goto(u, "spawn")
    /\ UNCHANGED <<owes, state, failures, first, run, cache, handlers, ctxDone, world>>

NeedsLogin(u) ==
    /\ At(u, "login") /\ ~creds[u]
    /\ setState(u, "needsLogin")
    /\ Goto(u, "park")
    /\ UNCHANGED <<failures, first, run, cache, handlers, ctxDone, world>>

LoginFails(u) ==
    /\ At(u, "login")
    /\ Goto(u, "account")
    /\ UNCHANGED <<owes, state, failures, first, run, cache, handlers, ctxDone, world>>

\* Faulty variant: an upstream that waits for a login still holds up Start.
Parked_Silent(u) ==
    /\ At(u, "park")
    /\ Goto(u, "wait")
    /\ UNCHANGED <<owes, state, failures, first, run, cache, handlers, ctxDone, world>>

Parked(u) ==
    /\ At(u, "park")
    /\ signalFirst(u)
    /\ Goto(u, "wait")
    /\ UNCHANGED <<owes, state, failures, run, cache, handlers, ctxDone, world>>

\* Wait returns: somebody has logged in, or the supervisor stops.
LoggedIn(u) ==
    /\ At(u, "wait") /\ creds[u]
    /\ setState(u, "starting")
    /\ Goto(u, "login")
    /\ UNCHANGED <<failures, first, run, cache, handlers, ctxDone, world>>

\* Faulty variant: stopping does not end the wait for a login.
WaitCancelled_Ignored(u) ==
    /\ At(u, "wait") /\ ctxDone /\ creds[u]
    /\ Goto(u, "account")
    /\ UNCHANGED <<owes, state, failures, first, run, cache, handlers, ctxDone, world>>

WaitCancelled(u) ==
    /\ At(u, "wait") /\ ctxDone
    /\ Goto(u, "account")
    /\ UNCHANGED <<owes, state, failures, first, run, cache, handlers, ctxDone, world>>

\* No handler, notification or process refers to the name of a session.
Unused(u, s) ==
    /\ \A t \in Sessions : handler[u][t].of # s
    /\ handler[u][s] = Idle /\ ~pending[u][s] /\ group[u][s] = None

\* Connect starts the child and the handshake.
Spawn(u) ==
    /\ At(u, "spawn")
    /\ \E s \in Sessions :
        /\ Unused(u, s)
        /\ current' = [current EXCEPT ![u] = s]
        /\ group' = IF u \in Stdio THEN [group EXCEPT ![u][s] = "child"] ELSE group
    /\ alive' = [alive EXCEPT ![u] = TRUE]
    /\ Goto(u, "connect")
    /\ UNCHANGED <<owes, state, failures, first, snap, pinged, quiet, stable, cache,
                   handlers, ctxDone, catalog, creds>>

Connected(u) ==
    /\ At(u, "connect") /\ alive[u]
    /\ session' = [session EXCEPT ![u] = current[u]]
    /\ pinged' = [pinged EXCEPT ![u] = FALSE]
    /\ Goto(u, "list")
    /\ UNCHANGED <<owes, state, failures, first, current, snap, quiet, stable, tools,
                   pingBroken, handlers, ctxDone, world>>

\* The handshake fails, StartTimeout passes or the supervisor stops.
ConnectFails(u) ==
    /\ At(u, "connect")
    /\ killGroup(u, current[u])
    /\ alive' = [alive EXCEPT ![u] = FALSE]
    /\ current' = [current EXCEPT ![u] = None]
    /\ Goto(u, "account")
    /\ UNCHANGED <<owes, state, failures, first, snap, pinged, quiet, stable, cache,
                   handlers, ctxDone, catalog, creds>>

\* The first refreshTools: the server answers tools/list ...
ListAnswers(u) ==
    /\ At(u, "list") /\ alive[u]
    /\ snap' = [snap EXCEPT ![u] = catalog[u]]
    /\ Goto(u, "store")
    /\ UNCHANGED <<owes, state, failures, first, current, pinged, quiet, stable, cache,
                   handlers, ctxDone, world>>

\* ... or the call fails, for which nothing sets a deadline.
ListFails(u) ==
    /\ At(u, "list") /\ (ctxDone \/ ~alive[u] \/ ListMayFail)
    /\ Goto(u, "close")
    /\ UNCHANGED <<owes, state, failures, first, run, cache, handlers, ctxDone, world>>

\* The cache is written after the answer, in a critical section of its own.
StoreTools(u) ==
    /\ At(u, "store")
    /\ tools' = [tools EXCEPT ![u] = snap[u]]
    /\ snap' = [snap EXCEPT ![u] = None]
    /\ Goto(u, "ready")
    /\ UNCHANGED <<owes, state, failures, first, current, pinged, quiet, stable, session,
                   pingBroken, handlers, ctxDone, world>>

BecomeReady(u) ==
    /\ At(u, "ready")
    /\ setState(u, "ready")
    /\ Goto(u, "settle")
    /\ UNCHANGED <<failures, first, run, cache, handlers, ctxDone, world>>

\* onReady, and whether this session is pinged at all: not when that is
\* configured, learned, or the session speaks the protocol without ping.
Settle(u) ==
    /\ At(u, "settle")
    /\ signalFirst(u)
    /\ \E modern \in BOOLEAN :
        quiet' = [quiet EXCEPT ![u] = modern \/ u \in NoPing \/ pingBroken[u]]
    /\ Goto(u, "serve")
    /\ UNCHANGED <<owes, state, failures, current, snap, pinged, stable, cache, handlers,
                   ctxDone, world>>

-----------------------------------------------------------------------------
(* runOnce: serving, and the ways it ends *)

Cancelled(u) ==
    /\ At(u, "serve") /\ ctxDone
    /\ setState(u, "stopped")
    /\ Goto(u, "close")
    /\ UNCHANGED <<failures, first, run, cache, handlers, ctxDone, world>>

\* Faulty variant: an exited child's group is not swept.
Exited_NoSweep(u) ==
    /\ At(u, "serve") /\ ~alive[u]
    /\ Goto(u, "clear")
    /\ UNCHANGED <<owes, state, failures, first, run, cache, handlers, ctxDone, world>>

\* Session.Wait returned: the child is gone, its descendants may not be.
Exited(u) ==
    /\ At(u, "serve") /\ ~alive[u]
    /\ killGroup(u, current[u])
    /\ Goto(u, "clear")
    /\ UNCHANGED <<owes, state, failures, first, run, cache, handlers, ctxDone, alive,
                   catalog, creds>>

Tick(u) ==
    /\ At(u, "serve") /\ ~quiet[u]
    /\ Goto(u, "ping")
    /\ UNCHANGED <<owes, state, failures, first, run, cache, handlers, ctxDone, world>>

PingAnswers(u) ==
    /\ At(u, "ping") /\ alive[u]
    /\ pinged' = [pinged EXCEPT ![u] = TRUE]
    /\ Goto(u, "serve")
    /\ UNCHANGED <<owes, state, failures, first, current, snap, quiet, stable, cache,
                   handlers, ctxDone, world>>

\* An error while stopping is left to the next round of the select.
PingMoot(u) ==
    /\ At(u, "ping") /\ ctxDone
    /\ Goto(u, "serve")
    /\ UNCHANGED <<owes, state, failures, first, run, cache, handlers, ctxDone, world>>

\* The first ping is rejected as an unknown method or with a missing session.
PingUnsupported(u) ==
    /\ At(u, "ping") /\ ~ctxDone /\ ~pinged[u]
    /\ pingBroken' = [pingBroken EXCEPT ![u] = TRUE]
    /\ quiet' = [quiet EXCEPT ![u] = TRUE]
    /\ Goto(u, "serve")
    /\ UNCHANGED <<owes, state, failures, first, current, snap, pinged, stable, session,
                   tools, handlers, ctxDone, world>>

PingFails(u) ==
    /\ At(u, "ping") /\ ~ctxDone
    /\ Goto(u, "close")
    /\ UNCHANGED <<owes, state, failures, first, run, cache, handlers, ctxDone, world>>

\* SIGTERM to the group, Close of the session, SIGKILL to the group.
shutdown(u) ==
    /\ At(u, "close")
    /\ killGroup(u, current[u])
    /\ alive' = [alive EXCEPT ![u] = FALSE]
    /\ Goto(u, "clear")
    /\ UNCHANGED <<owes, state, failures, first, run, cache, handlers, ctxDone, catalog,
                   creds>>

\* Faulty variant: the session of the run that is over stays in place.
Clear_KeepsSession(u) ==
    /\ At(u, "clear")
    /\ tools' = [tools EXCEPT ![u] = None]
    /\ current' = [current EXCEPT ![u] = None]
    /\ Goto(u, "account")
    /\ UNCHANGED <<owes, state, failures, first, snap, pinged, quiet, stable, session,
                   pingBroken, handlers, ctxDone, world>>

\* The deferred function of runOnce: neither the state changes nor is anybody told.
Clear(u) ==
    /\ At(u, "clear")
    /\ session' = [session EXCEPT ![u] = None]
    /\ tools' = [tools EXCEPT ![u] = None]
    /\ current' = [current EXCEPT ![u] = None]
    /\ Goto(u, "account")
    /\ UNCHANGED <<owes, state, failures, first, snap, pinged, quiet, stable, pingBroken,
                   handlers, ctxDone, world>>

-----------------------------------------------------------------------------
(* run: what follows a run *)

Stopping(u) ==
    /\ At(u, "account") /\ ctxDone
    /\ setState(u, "stopped")
    /\ Goto(u, "leave")
    /\ UNCHANGED <<failures, first, run, cache, handlers, ctxDone, world>>

\* Faulty variant: the counter is reset by every run that got Ready.
Failed_ResetWhenReady(u) == IF state[u] = "ready" THEN 1 ELSE failures[u] + 1

\* The count of consecutive failures, this run's included.
Failed(u) == IF stable[u] THEN 1 ELSE failures[u] + 1

\* Faulty variant: one failure too many is forgiven.
TooMany_OffByOne(u) == Failed(u) > MaxFailures

TooMany(u) == Failed(u) >= MaxFailures

GiveUp(u) ==
    /\ At(u, "account") /\ ~ctxDone /\ TooMany(u)
    /\ failures' = [failures EXCEPT ![u] = Failed(u)]
    /\ setState(u, "failed")
    /\ Goto(u, "leave")
    /\ UNCHANGED <<first, run, cache, handlers, ctxDone, world>>

Retry(u) ==
    /\ At(u, "account") /\ ~ctxDone /\ ~TooMany(u)
    /\ failures' = [failures EXCEPT ![u] = Failed(u)]
    /\ setState(u, "starting")
    /\ Goto(u, "backoff")
    /\ UNCHANGED <<first, run, cache, handlers, ctxDone, world>>

BackoffEnds(u) ==
    /\ At(u, "backoff")
    /\ Goto(u, "begin")
    /\ UNCHANGED <<owes, state, failures, first, run, cache, handlers, ctxDone, world>>

BackoffCancelled(u) ==
    /\ At(u, "backoff") /\ ctxDone
    /\ setState(u, "stopped")
    /\ Goto(u, "leave")
    /\ UNCHANGED <<failures, first, run, cache, handlers, ctxDone, world>>

\* The deferred signalFirst and close(done): the loop is over.
Leave(u) ==
    /\ At(u, "leave")
    /\ signalFirst(u)
    /\ Goto(u, "exit")
    /\ UNCHANGED <<owes, state, failures, run, cache, handlers, ctxDone, world>>

-----------------------------------------------------------------------------
(* The list_changed handler of a session: refreshTools in a goroutine of the SDK *)

\* refreshTools reads Upstream.session, whatever session the notice came from.
HandlerStarts(u, s) ==
    /\ pending[u][s] /\ handler[u][s] = Idle
    /\ pending' = [pending EXCEPT ![u][s] = FALSE]
    /\ handler' = IF session[u] = None THEN handler
                  ELSE [handler EXCEPT ![u][s] = [pc |-> "list", of |-> session[u], snap |-> None]]
    /\ UNCHANGED <<loop, run, cache, ctxDone, world>>

HandlerAnswered(u, s) ==
    /\ handler[u][s].pc = "list" /\ handler[u][s].of = current[u] /\ alive[u]
    /\ handler' = [handler EXCEPT ![u][s] = [@ EXCEPT !.pc = "store", !.snap = catalog[u]]]
    /\ UNCHANGED <<pending, loop, run, cache, ctxDone, world>>

\* The error is logged; nothing retries.
HandlerFails(u, s) ==
    /\ handler[u][s].pc = "list"
    /\ handler[u][s].of # current[u] \/ ~alive[u] \/ ListMayFail
    /\ handler' = [handler EXCEPT ![u][s] = Idle]
    /\ UNCHANGED <<pending, loop, run, cache, ctxDone, world>>

HandlerStores(u, s) ==
    /\ handler[u][s].pc = "store"
    /\ tools' = [tools EXCEPT ![u] = handler[u][s].snap]
    /\ handler' = [handler EXCEPT ![u][s] =
                    IF state[u] = "ready" THEN [Idle EXCEPT !.pc = "notify"] ELSE Idle]
    /\ UNCHANGED <<session, pingBroken, pending, loop, run, ctxDone, world>>

\* OnChange returns to the handler.
HandlerNotified(u, s) ==
    /\ handler[u][s].pc = "notify"
    /\ handler' = [handler EXCEPT ![u][s] = Idle]
    /\ UNCHANGED <<pending, loop, run, cache, ctxDone, world>>

-----------------------------------------------------------------------------
(* Stop, the servers and the user *)

Stop ==
    /\ ~ctxDone
    /\ ctxDone' = TRUE
    /\ UNCHANGED <<loop, run, cache, handlers, world>>

\* The child exits, the connection breaks, or Reconnect closes the session.
\* Descendants of a child may survive it.
SessionEnds(u) ==
    /\ alive[u]
    /\ alive' = [alive EXCEPT ![u] = FALSE]
    /\ IF u \in Stdio
       THEN \E left \in {None, "orphans"} : group' = [group EXCEPT ![u][current[u]] = left]
       ELSE UNCHANGED group
    /\ UNCHANGED <<loop, run, cache, handlers, ctxDone, catalog, creds>>

\* The server tells the session that is connected that its tools have changed, which they
\* may have or not.
ServerChanges(u) ==
    /\ \E v \in Versions : catalog' = [catalog EXCEPT ![u] = v]
    /\ pending' = IF alive[u] /\ session[u] # None
                  THEN [pending EXCEPT ![u][current[u]] = TRUE] ELSE pending
    /\ UNCHANGED <<handler, loop, run, cache, ctxDone, alive, group, creds>>

LoginChanges(u) ==
    /\ u \in OAuth
    /\ creds' = [creds EXCEPT ![u] = ~@]
    /\ UNCHANGED <<loop, run, cache, handlers, ctxDone, alive, group, catalog>>

\* The run has lasted for StableAfter, counted from before the connect.
Stabilise(u) ==
    /\ ~stable[u]
    /\ pc[u] \in {"serve", "ping"} \cup SlowStart
    /\ stable' = [stable EXCEPT ![u] = TRUE]
    /\ UNCHANGED <<current, snap, pinged, quiet, loop, cache, handlers, ctxDone, world>>

-----------------------------------------------------------------------------
Starts(u) ==
    \/ Begin(u) \/ HasLogin(u) \/ NeedsLogin(u) \/ LoginFails(u) \/ Parked(u)
    \/ LoggedIn(u) \/ WaitCancelled(u) \/ Spawn(u) \/ Connected(u) \/ ConnectFails(u)
    \/ ListAnswers(u) \/ ListFails(u) \/ StoreTools(u) \/ BecomeReady(u) \/ Settle(u)

Serves(u) ==
    \/ Cancelled(u) \/ Exited(u) \/ Tick(u) \/ PingAnswers(u) \/ PingMoot(u)
    \/ PingUnsupported(u) \/ PingFails(u) \/ shutdown(u) \/ Clear(u)

Ends(u) ==
    \/ Stopping(u) \/ GiveUp(u) \/ Retry(u) \/ BackoffEnds(u) \/ BackoffCancelled(u)
    \/ Leave(u)

Handles(u, s) ==
    HandlerStarts(u, s) \/ HandlerAnswered(u, s) \/ HandlerFails(u, s) \/ HandlerStores(u, s)

Environment(u) ==
    SessionEnds(u) \/ ServerChanges(u) \/ LoginChanges(u) \/ Stabilise(u)

\* Every step but the returns of OnChange, which Catalog refines.
Works ==
    \/ \E u \in Ids : Starts(u) \/ Serves(u) \/ Ends(u) \/ Environment(u)
    \/ \E u \in Ids, s \in Sessions : Handles(u, s)
    \/ Stop

Next ==
    \/ Works
    \/ \E u \in Ids : Notified(u)
    \/ \E u \in Ids, s \in Sessions : HandlerNotified(u, s)

Spec == Init /\ [][Next]_vars

-----------------------------------------------------------------------------
(* Fairness *)

\* The returns of requests that have a deadline, or whose session or supervisor is
\* over: nothing else ends a tools/list that is not answered.
Finishes(u) ==
    \/ Connected(u) \/ ConnectFails(u)
    \/ (ctxDone \/ ~alive[u]) /\ ListFails(u)
    \/ PingAnswers(u) \/ PingMoot(u) \/ PingUnsupported(u) \/ PingFails(u)
    \/ shutdown(u)

HandlerFinishes(u, s) ==
    /\ handler[u][s].of # current[u] \/ ~alive[u]
    /\ HandlerFails(u, s)

RequestsReturn(u) ==
    /\ WF_vars(Finishes(u))
    /\ \A s \in Sessions : WF_vars(HandlerFinishes(u, s))

\* Not so a request that comes to the fetcher of a finished login (UpstreamAuth's
\* StrayLogin), which blocks for ever. Logins need the HTTP server, so that there are
\* none before Start has returned.
MayBlock(u) == u \in OAuth /\ first[u]

\* Goroutines run and timers fire, and a select chooses among what is ready without
\* favour.
LoopFairness ==
    /\ \A u \in Ids :
        /\ WF_vars(Begin(u)) /\ WF_vars(HasLogin(u) \/ NeedsLogin(u) \/ LoginFails(u))
        /\ WF_vars(Parked(u)) /\ WF_vars(LoggedIn(u)) /\ SF_vars(WaitCancelled(u))
        /\ WF_vars(Spawn(u)) /\ WF_vars(StoreTools(u))
        /\ WF_vars(BecomeReady(u)) /\ WF_vars(Settle(u))
        /\ SF_vars(Cancelled(u)) /\ SF_vars(Exited(u))
        /\ WF_vars(Clear(u)) /\ WF_vars(Ends(u))
        /\ WF_vars(~MayBlock(u) /\ Finishes(u))
    /\ \A u \in Ids, s \in Sessions :
        /\ WF_vars(HandlerStarts(u, s)) /\ WF_vars(HandlerStores(u, s))
        /\ WF_vars(~MayBlock(u) /\ HandlerFinishes(u, s))

\* OnChange returns: a sync (Catalog) waits for Gateway.mu and for nothing else.
NotifyFairness ==
    /\ \A u \in Ids : WF_vars(Notified(u))
    /\ \A u \in Ids, s \in Sessions : WF_vars(HandlerNotified(u, s))

FairSpec == Spec /\ LoopFairness /\ NotifyFairness

-----------------------------------------------------------------------------
(* Properties *)

\* Where a session and its process group may exist: from the handshake to the
\* sweep that ends a run.
Running == {"connect", "list", "store", "ready", "settle", "serve", "ping", "close"}

\* "One child per (namespace, server)": whatever process group an upstream has
\* belongs to the run under way, and nothing a wrapper spawned outlives its run,
\* however the run ends.
NoStrayProcess ==
    \A u \in Ids, s \in Sessions :
        group[u][s] # None => s = current[u] /\ pc[u] \in Running

\* Stop leaves every loop ended and no process behind, from any point of a start,
\* a login wait, a backoff or a ping; that of an OAuth upstream provided that none of
\* its requests blocks, which holds up no other upstream's.
StopEnds ==
    \A u \in Ids :
        (u \in OAuth => RequestsReturn(u)) =>
            (ctxDone ~> /\ pc[u] = "exit" /\ state[u] \in {"stopped", "failed"}
                        /\ \A s \in Sessions : group[u][s] = None)

\* An upstream that keeps being restarted has had runs that lasted: one whose
\* every run ends early is given up on, although Ready resets nothing.
CrashLoopEnds ==
    \A u \in Ids : []<>(pc[u] = "backoff") => []<>stable[u]

\* Start returns: every upstream comes to its first signal, whatever becomes of
\* its handshakes, logins and restarts, provided that no tools/list hangs, since
\* that call has no deadline, and (SlowStart) that none takes StableAfter to fail.
StartReturns ==
    (\A u \in Ids : []<>(pc[u] # "list")) => <>(\A u \in Ids : first[u])

\* "tools/list_changed from an upstream re-syncs it": with every notification
\* handled, the cache of a serving upstream is its server's tool list.
CacheFresh ==
    \A u \in Ids :
        /\ pc[u] = "serve" /\ ~owes[u] /\ alive[u]
        /\ \A s \in Sessions : handler[u][s] = Idle /\ ~pending[u][s]
        => tools[u] = catalog[u]

\* The run loops keep the supervisor's promise about sessions, processes and states:
\* see Lifecycle.
Life == INSTANCE Lifecycle WITH
    procs <- [u \in Ids |-> {s \in Sessions : group[u][s] # None}], stopping <- ctxDone

\* At most one process group, and only of the run under way; no session without it;
\* Failed and Stopped are final, and Failed and NeedsLogin have nothing left.
KeepsLifecycle == Life!Spec
=============================================================================
