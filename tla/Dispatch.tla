------------------------------ MODULE Dispatch ------------------------------
(***************************************************************************)
(* The path of a tool call through the gateway (Gateway.handler and        *)
(* Gateway.dispatch): the breaker of its upstream, a deadline that also    *)
(* covers queueing, three semaphores, the call itself, the breaker update, *)
(* the deferred releases and the audit observation.                        *)
(*                                                                         *)
(* One goroutine runs per request.  A step is one operation on shared      *)
(* state: a critical section of the breaker, a send to or a receive from a *)
(* semaphore channel, the answer of the upstream, the observer's call.     *)
(***************************************************************************)
EXTENDS Limits

CONSTANTS
    Failures,       \* BreakerConfig.Failures; zero or less disables breaking
    CallTimeout,    \* Limits.CallTimeout; zero or less is no deadline
    ServerTimeout,  \* overrides of it; 0 stands for an absent key
    OAuth,          \* the upstreams whose requests may block in a login's fetcher
    Answers         \* how an upstream may answer, a subset of AllAnswers

AllAnswers == {"ok", "rpcError", "transport", "notReady"}

ASSUME DispatchAssumption ==
    /\ Failures \in Int /\ CallTimeout \in Int
    /\ ServerTimeout \in [Upstreams -> Int]
    /\ OAuth \subseteq Upstreams
    /\ Answers \subseteq AllAnswers

VARIABLES
    tokens,     \* how many values each semaphore channel holds
    failures,   \* breaker.failures, counted no further than the threshold
    openedAt,   \* "zero", or the time since it: "cooling" or "cooled"
    trial,      \* breaker.trial
    pc,         \* where the goroutine of each request is
    target,     \* the upstream the request names
    got,        \* how many of its three semaphores it has passed
    ctx,        \* its context: "live", "expired" or "cancelled"
    err,        \* what dispatch returns: "none" until then
    probe       \* history: this request is a trial call under way

breakers == <<failures, openedAt, trial>>
vars == <<tokens, failures, openedAt, trial, pc, target, got, ctx, err, probe>>

Errors == {"none", "circuitOpen", "capacity", "timeout", "cancelled"} \cup AllAnswers

TypeOK ==
    /\ tokens \in [Scopes -> Nat]
    /\ failures \in [Upstreams -> Nat]
    /\ openedAt \in [Upstreams -> {"zero", "cooling", "cooled"}]
    /\ trial \in [Upstreams -> BOOLEAN]
    /\ pc \in [Calls -> {"idle", "queue", "upstream", "unwind", "observe"}]
    /\ target \in [Calls -> Upstreams]
    /\ got \in [Calls -> 0..3]
    /\ ctx \in [Calls -> {"live", "expired", "cancelled"}]
    /\ err \in [Calls -> Errors]
    /\ probe \in [Calls -> BOOLEAN]

Init ==
    /\ tokens = [s \in Scopes |-> 0]
    /\ failures = [u \in Upstreams |-> 0]
    /\ openedAt = [u \in Upstreams |-> "zero"]
    /\ trial = [u \in Upstreams |-> FALSE]
    /\ pc = [c \in Calls |-> "idle"]
    /\ target \in [Calls -> Upstreams]
    /\ got = [c \in Calls |-> 0]
    /\ ctx = [c \in Calls |-> "live"]
    /\ err = [c \in Calls |-> "none"]
    /\ probe = [c \in Calls |-> FALSE]

timeout(u) == IF ServerTimeout[u] > 0 THEN ServerTimeout[u] ELSE CallTimeout

-----------------------------------------------------------------------------
(* The breaker *)

Breaking == Failures > 0

\* The open state, once the cooldown has passed and no trial is out.
TrialDue(u) == openedAt[u] = "cooled" /\ ~trial[u]

allow(u) == ~Breaking \/ openedAt[u] = "zero" \/ TrialDue(u)

\* The side effect of allow: only the trial call marks the breaker.
IsTrial(u) == Breaking /\ TrialDue(u)

success(u) ==
    IF Breaking
    THEN /\ failures' = [failures EXCEPT ![u] = 0]
         /\ openedAt' = [openedAt EXCEPT ![u] = "zero"]
         /\ trial' = [trial EXCEPT ![u] = FALSE]
    ELSE UNCHANGED breakers

\* Faulty variant: the trial is still marked out when the breaker reopens.
failure_KeepsTrial(u) ==
    LET count == IF failures[u] < Failures THEN failures[u] + 1 ELSE failures[u]
    IN IF Breaking
       THEN /\ failures' = [failures EXCEPT ![u] = count]
            /\ openedAt' = IF count >= Failures
                           THEN [openedAt EXCEPT ![u] = "cooling"] ELSE openedAt
            /\ UNCHANGED trial
       ELSE UNCHANGED breakers

\* Only the comparison with the threshold reads the count, so it stops there.
failure(u) ==
    LET count == IF failures[u] < Failures THEN failures[u] + 1 ELSE failures[u]
    IN IF Breaking
       THEN /\ failures' = [failures EXCEPT ![u] = count]
            /\ openedAt' = IF count >= Failures
                           THEN [openedAt EXCEPT ![u] = "cooling"] ELSE openedAt
            /\ trial' = [trial EXCEPT ![u] = FALSE]
       ELSE UNCHANGED breakers

\* Time passes: the cooldown of an open breaker ends.
Cool(u) ==
    /\ openedAt[u] = "cooling"
    /\ openedAt' = [openedAt EXCEPT ![u] = "cooled"]
    /\ UNCHANGED <<tokens, failures, trial, pc, target, got, ctx, err, probe>>

-----------------------------------------------------------------------------
(* The request *)

Admit(c, u) ==
    /\ pc[c] = "idle"
    /\ allow(u)
    /\ trial' = [trial EXCEPT ![u] = @ \/ IsTrial(u)]
    /\ probe' = [probe EXCEPT ![c] = IsTrial(u)]
    /\ pc' = [pc EXCEPT ![c] = "queue"]
    /\ target' = [target EXCEPT ![c] = u]
    /\ UNCHANGED <<tokens, failures, openedAt, got, ctx, err>>

Reject(c, u) ==
    /\ pc[c] = "idle"
    /\ ~allow(u)
    /\ pc' = [pc EXCEPT ![c] = "observe"]
    /\ target' = [target EXCEPT ![c] = u]
    /\ err' = [err EXCEPT ![c] = "circuitOpen"]
    /\ UNCHANGED <<tokens, failures, openedAt, trial, got, ctx, probe>>

\* The deadline counts from before the queue.
Expire(c) ==
    /\ pc[c] \in {"queue", "upstream"} /\ ctx[c] = "live"
    /\ timeout(target[c]) > 0
    /\ ctx' = [ctx EXCEPT ![c] = "expired"]
    /\ UNCHANGED <<tokens, failures, openedAt, trial, pc, target, got, err, probe>>

\* The client goes away.
Cancel(c) ==
    /\ pc[c] \in {"queue", "upstream"} /\ ctx[c] = "live"
    /\ ctx' = [ctx EXCEPT ![c] = "cancelled"]
    /\ UNCHANGED <<tokens, failures, openedAt, trial, pc, target, got, err, probe>>

NextScope(c) == Path(target[c])[got[c] + 1]

\* Faulty variant: one more than the capacity.
acquire_OneTooMany(s) ==
    /\ Limited(s) => tokens[s] <= Capacity(s)
    /\ tokens' = IF Limited(s) THEN [tokens EXCEPT ![s] = @ + 1] ELSE tokens

\* A send on the semaphore's channel, or nothing at all for a nil semaphore.
acquire(s) ==
    /\ Limited(s) => tokens[s] < Capacity(s)
    /\ tokens' = IF Limited(s) THEN [tokens EXCEPT ![s] = @ + 1] ELSE tokens

\* Faulty variant: a nil semaphore is received from as well.
release_OfNil(s) ==
    /\ Limited(s) => tokens[s] > 0
    /\ tokens' = [tokens EXCEPT ![s] = @ - 1]

\* Faulty variant: the namespace's slot is never given back.
release_KeepsNamespace(s) ==
    /\ Limited(s) => tokens[s] > 0
    /\ tokens' = IF Limited(s) /\ s \notin Namespaces
                 THEN [tokens EXCEPT ![s] = @ - 1] ELSE tokens

release(s) ==
    /\ Limited(s) => tokens[s] > 0
    /\ tokens' = IF Limited(s) THEN [tokens EXCEPT ![s] = @ - 1] ELSE tokens

\* Faulty variant: the upstream's own semaphore is left out.
Acquire_SkipsServer(c) ==
    /\ pc[c] = "queue"
    /\ acquire(NextScope(c))
    /\ got' = [got EXCEPT ![c] = @ + 1]
    /\ pc' = [pc EXCEPT ![c] = IF got[c] = 1 THEN "upstream" ELSE "queue"]
    /\ UNCHANGED <<failures, openedAt, trial, target, ctx, err, probe>>

Acquire(c) ==
    /\ pc[c] = "queue"
    /\ acquire(NextScope(c))
    /\ got' = [got EXCEPT ![c] = @ + 1]
    /\ pc' = [pc EXCEPT ![c] = IF got[c] = 2 THEN "upstream" ELSE "queue"]
    /\ UNCHANGED <<failures, openedAt, trial, target, ctx, err, probe>>

\* Nothing reads the context once dispatch has its result, and a trial is over.
Forget(c) ==
    /\ ctx' = [ctx EXCEPT ![c] = "live"]
    /\ probe' = [probe EXCEPT ![c] = FALSE]

\* Faulty variant: waiting in vain counts against the upstream.
GiveUp_BlamesUpstream(c) ==
    /\ pc[c] = "queue" /\ ctx[c] # "live"
    /\ Limited(NextScope(c))
    /\ pc' = [pc EXCEPT ![c] = IF got[c] = 0 THEN "observe" ELSE "unwind"]
    /\ err' = [err EXCEPT ![c] = "capacity"]
    /\ failure(target[c])
    /\ Forget(c)
    /\ UNCHANGED <<tokens, target, got>>

\* The select takes ctx.Done even when the channel has room as well.
GiveUp(c) ==
    /\ pc[c] = "queue" /\ ctx[c] # "live"
    /\ Limited(NextScope(c))
    /\ pc' = [pc EXCEPT ![c] = IF got[c] = 0 THEN "observe" ELSE "unwind"]
    /\ err' = [err EXCEPT ![c] = "capacity"]
    /\ Forget(c)
    /\ UNCHANGED <<tokens, failures, openedAt, trial, target, got>>

\* What CallTool may return: an answer that beat the context, or its error.
Outcomes(c) ==
    Answers \cup (CASE ctx[c] = "live" -> {}
                    [] ctx[c] = "expired" -> {"timeout"}
                    [] ctx[c] = "cancelled" -> {"cancelled"})

\* CallTool returns e and dispatch tells the breaker.  An answer with isError
\* set is "ok": it is a result, not an error.
Return(c, e) ==
    /\ pc[c] = "upstream"
    /\ e \in Outcomes(c)
    /\ pc' = [pc EXCEPT ![c] = "unwind"]
    /\ err' = [err EXCEPT ![c] = e]
    /\ CASE e = "ok" -> success(target[c])
         [] e = "notReady" -> UNCHANGED breakers
         [] OTHER -> failure(target[c])
    /\ Forget(c)
    /\ UNCHANGED <<tokens, target, got>>

\* The deferred releases, last acquired first; then dispatch returns.
Release(c) ==
    /\ pc[c] = "unwind"
    /\ release(Path(target[c])[got[c]])
    /\ got' = [got EXCEPT ![c] = @ - 1]
    /\ pc' = [pc EXCEPT ![c] = IF got[c] = 1 THEN "observe" ELSE "unwind"]
    /\ UNCHANGED <<failures, openedAt, trial, target, ctx, err, probe>>

\* The observer sees every request, the rejected ones too; then the answer is
\* sent and the request is over.
Observe(c) ==
    /\ pc[c] = "observe"
    /\ pc' = [pc EXCEPT ![c] = "idle"]
    /\ err' = [err EXCEPT ![c] = "none"]
    /\ UNCHANGED <<tokens, failures, openedAt, trial, target, got, ctx, probe>>

Next ==
    \/ \E u \in Upstreams : Cool(u)
    \/ \E c \in Calls :
        \/ \E u \in Upstreams : Admit(c, u) \/ Reject(c, u)
        \/ Expire(c)
        \/ Cancel(c)
        \/ Acquire(c)
        \/ GiveUp(c)
        \/ \E e \in Errors : Return(c, e)
        \/ Release(c)
        \/ Observe(c)

Spec == Init /\ [][Next]_vars

-----------------------------------------------------------------------------
(* Fairness *)

\* CallTool returns once the context of the call is done; from an upstream that is
\* called without a deadline it is taken to return as well.
Returns(c) ==
    /\ ctx[c] # "live" \/ timeout(target[c]) <= 0
    /\ \E e \in Errors : Return(c, e)

\* Not so when the handler of a finished login is rejected: its fetcher blocks, and
\* no context ends that (UpstreamAuth's StrayLogin).
AllReturn == \A c \in Calls : WF_vars(Returns(c))

\* Goroutines run, deadlines pass, and the select of acquire returns once its
\* context is done; the senders that wait for a channel are served first in first
\* out.
Fairness ==
    /\ \A u \in Upstreams : WF_vars(Cool(u))
    /\ \A c \in Calls :
        /\ WF_vars(Expire(c))
        /\ SF_vars(Acquire(c)) /\ WF_vars(Acquire(c) \/ GiveUp(c))
        /\ WF_vars(target[c] \notin OAuth /\ Returns(c))
        /\ WF_vars(Release(c))
        /\ WF_vars(Observe(c))

FairSpec == Spec /\ Fairness

-----------------------------------------------------------------------------
(* Properties *)

\* The request has passed the semaphore of s and has not yet released it.
Holders(s) == {c \in Calls : \E i \in 1..got[c] : Path(target[c])[i] = s}

\* A semaphore channel holds one value per request between its acquire and its
\* deferred release, so no slot leaks on any error path of dispatch and a
\* release never blocks.
SlotAccounting ==
    \A s \in Scopes : Limited(s) => tokens[s] = Cardinality(Holders(s))

\* No more calls are upstream than any of their three limits allows, overrides
\* included, whichever way earlier calls ended.
InFlightBounded ==
    \A s \in Scopes :
        Limited(s) => Cardinality({c \in Calls :
            pc[c] = "upstream" /\ s \in ScopesOf(target[c])}) <= Capacity(s)

\* A request that only a release of the scope it waits for can bring any further,
\* however long its deadline.
Waits(c) ==
    /\ pc[c] = "queue" /\ Limited(NextScope(c))
    /\ tokens[NextScope(c)] >= Capacity(NextScope(c))

\* No set of requests waits for itself: among any requests that wait there is one
\* that waits for a slot of somebody else, so the slots a request keeps while it
\* waits for the next scope never make it wait for ever.
NoCircularWait ==
    \A waiting \in SUBSET {c \in Calls : Waits(c)} :
        waiting # {} => \E c \in waiting : ~ Holders(NextScope(c)) \subseteq waiting

\* The three fields of a breaker agree, although calls admitted before it opened
\* still report to it while it is open or half-open: it is open exactly from the
\* threshold on, and a trial is out only after the cooldown.
BreakerConsistent ==
    \A u \in Upstreams :
        /\ openedAt[u] # "zero" <=> Breaking /\ failures[u] = Failures
        /\ trial[u] => openedAt[u] = "cooled"

\* A breaker counts nothing but what came back from its own upstream: waiting in
\* vain for capacity and calls to other upstreams leave it alone.
OnlyUpstreamCounts ==
    [][\A u \in Upstreams :
        failures[u]' > failures[u] =>
            \E c \in Calls : /\ pc[c] = "upstream" /\ target[c] = u
                             /\ pc'[c] = "unwind"]_vars

\* Every request with a deadline is answered and recorded, whatever becomes of its
\* upstream and of the slots it waits for, unless its own call blocks; and every request
\* is, with a deadline or without, as long as none blocks, since no two requests can each
\* hold a slot the other waits for.
CallsFinish ==
    /\ \A c \in Calls :
        pc[c] # "idle" /\ timeout(target[c]) > 0
            ~> pc[c] = "idle" \/ (pc[c] = "upstream" /\ target[c] \in OAuth)
    /\ AllReturn => \A c \in Calls : pc[c] # "idle" ~> pc[c] = "idle"

\* A trial call ends: the breaker does not stay half-open.
TrialEnds == \A u \in Upstreams : trial[u] ~> ~trial[u]

\* "In the open state exactly one trial call is let through": no two trial
\* calls of one upstream are under way together.
OneTrialAtATime ==
    \A u \in Upstreams :
        openedAt[u] # "zero" =>
            Cardinality({c \in Calls : /\ probe[c] /\ target[c] = u
                                      /\ pc[c] \in {"queue", "upstream"}}) <= 1

\* The dispatch path keeps the gateway's promise about limits: see CallLimits.
Stage(p) == CASE p = "idle" -> "idle"
              [] p = "queue" -> "accepted"
              [] p = "upstream" -> "running"
              [] p \in {"unwind", "observe"} -> "left"

Promise == INSTANCE CallLimits WITH
    stage <- [c \in Calls |-> Stage(pc[c])], dest <- target

\* Each request runs upstream at most once and only with room in all its scopes.
KeepsPromise == Promise!Spec
=============================================================================
