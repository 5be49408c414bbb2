# Verification of rusty-gateway

TLA+ models of the gateway's concurrent core, TLC runs that check them on small
instances, and TLAPS proofs for every value of the constants. Source references
are to `src/`; `PROJECT.json` maps each definition to the lines it models.

## Inventory

The gateway is one process. It starts MCP servers ("upstreams": child processes on
stdio, or remote HTTP servers), groups them into namespaces, and serves each namespace
as one MCP server over HTTP.

| Component | State | Operations | Talks to |
|---|---|---|---|
| Dispatch (`internal/gateway/gateway.go`, `limits.go`) | three kinds of semaphores, one breaker per upstream | `handler`, `dispatch`, `allow`, `success`, `failure`, `acquire`, `release` | calls `Upstream.CallTool`, then the audit sink's `Observe` |
| Supervisor (`internal/supervisor`) | per upstream: state, session, process group, tool cache, failure counter, `pingBroken` | `Start`, `Stop`, `run`, `runOnce`, `awaitOAuth`, `refreshTools`, `Reconnect` | calls back `OnChange` (= `Gateway.Refresh`); waits on the OAuth manager |
| Catalog (`Gateway.Refresh`, `RefreshAll`, `syncLocked`) | `Gateway.mu`, the registered tools of each namespace | a sync reads `Upstream.Tools()` and registers the union | called from run loops, `list_changed` handlers and main |
| Discovery (`discovery.go`) | none | `toolInfos`, search, `metaCall` | reads `Tools()`, ends in `handler` |
| Upstream OAuth (`internal/upstreamauth`) | handler, ready channel and pending login per upstream; credentials in SQLite | `Handler`, `Wait`, `StartLogin`, callback, `invalidate`, `Token` | `OnInvalidate`, `OnLogin` = `Supervisor.Reconnect` |
| Audit (`internal/audit`, `cmd/gateway/audit.go`) | bounded channel, writer goroutine, SQLite rows | `Observe`, `Close`, `Insert`, `Query`, `Prune`; `audit tail` | called from `handler`; closed by main |
| Startup and shutdown (`cmd/gateway/main.go`) | signal context | order of `Start`, `RefreshAll`, HTTP drain, `Stop`, `Close` | everything |
| Configuration (`internal/config`) | one `Config`, fixed once it is accepted | `applyDefaults`, `expand`, `validate` | gives every other component its values; `auth.New`, `ui.New` and `newMux` check them again |
| Bearer auth, redaction, dashboard, routes | none that outlives a request, apart from caches of libraries | decide, render | read-only |

What is hard, and what makes each part correct:

* **Dispatch.** Many goroutines share semaphores and breakers; the context of a call may
  end at any of its steps. Correct: no slot leaks, no limit is exceeded, nobody waits
  for ever behind calls that end, each call is answered and observed once, a breaker's fields agree, and a
  half-open breaker always leaves that state by *one* trial.
* **Supervisor.** A run loop is interrupted by exits, pings, deadlines, logins and
  `Stop`, while handlers of this and of earlier sessions write the same cache. Correct:
  no process outlives its run, `Stop` and `Start` return, a crash loop is given up on, the
  counter resets only when it should, and the cache follows the server.
* **Catalog.** A sync reads upstreams one by one while they change. Correct: no update is
  lost, the tools of a failed upstream stay away, and the MCP server ends up with exactly the tools
  the mode of the namespace promises, each calling its own upstream.
* **Names.** A name is glued from two parts that may hold the separator, and taken apart
  again. Correct: a listed name leads to the tool it is listed for.
* **Configuration.** Five places check parts of one file. Correct: what is accepted does not
  is refused later, what was validated is what runs, and the numbers mean what dispatch assumes.
* **OAuth.** Logins, refreshes and rejections of old and new credentials overlap.
  Correct: whoever waits for a login is woken by the next one, no channel is closed twice, and
  credentials the server rejects are dropped, also those that come back from the store.
* **Audit.** Correct: a call never waits for the log, an accepted row is written (or its
  error logged) before the process exits, nothing is observed after `Close`; a follower sees each
  row once.

The complete list of hazards, with the line where each bites and the properties that
cover it, is in `PROJECT.json` under `hazards`.

## Plan

1. *Done:* `Limits`, `Dispatch`; `Supervisor`; `Catalog` (composes the supervisor with the syncs);
   `UpstreamAuth`; `Audit`, `AuditTail`; `Names`, `Config`, `ToolNames`; and what four of them promise,
   which they are shown to implement: `CallLimits`, `Lifecycle`, `LoginGate`, `AuditQueue`.
2. *Done:* proofs for `Dispatch`, `UpstreamAuth`, `Audit`, `AuditTail`, `Supervisor`, `Catalog`, `Names`,
   `Config` and `ToolNames`: every invariant and action property of the runs that pass, and the safety part of
   each refinement.
3. *Open:* `UpstreamAuth` composed with `Supervisor`: `creds` and `SessionEnds` of the run loop
   become what the entry does, so that `NeedsLogin`, the failure counter and `Reconnect` meet
   the logins. Each now has the other as a free environment.

Runs are kept few and each is bounded to stay within minutes.

## Modules

**`Limits`** holds the configuration shared by the abstract and the detailed
specification: the concurrency limits with their overrides (`namespaceLimit`, `serverLimit`),
the three scopes (the gateway, a namespace, an upstream), `Path`, the semaphores a call
takes in order, and the assumption on the constants. A limit of zero or less is none.

**`CallLimits`** is the promise: a request is accepted or refused, runs upstream at most
once and only when each of its scopes has room, and is answered once.

**`Dispatch`** is `Gateway.handler` and `Gateway.dispatch`, one goroutine per request.
`pc` is where it is (`queue`: between `allow` and the third acquire, `got` counting the
semaphores it has passed; `upstream`: in `CallTool`; `unwind`: in the deferred releases;
`observe`: about to call `Observe`). `Admit` and `Reject` are the two outcomes of
`breaker.allow`, with the side effect that marks a trial; `Expire` and `Cancel` end the
context; `Acquire` and `GiveUp` are the two cases of the `select` in `acquire`; `Return` is
the answer of `CallTool` with the `switch` that updates the breaker; `Release` is one deferred
`release`. Time is abstracted: `openedAt` is unset, cooling or cooled, a deadline may pass whenever
one exists. `failures` stops at the threshold, since only that comparison reads it. `probe` is a
history variable that marks trial calls. The answer to a call is one of `ok` (a result,
`isError` or not), `rpcError`, `transport`, `notReady`, or the error of its context. `OAuth` are the upstreams
whose calls may block in `CallTool` (finding 4).

**`Supervisor`** is the run loop of each upstream with its states, the `list_changed`
handlers (one goroutine per session, since the SDK delivers a session's notifications in
order), `Start` and `Stop`. A step is a critical section of `Upstream.mu` or the return
of a blocking call, so that `OnChange` (variable `owes`), the answer to `tools/list` (`snap`) and
the store into the cache are separate steps. `group` is the process group of a session's
child: the child, what it left behind, or nothing. `stable` says that `StableAfter` has
passed since `started` was taken; the constant `SlowStart` says where, apart from serving, that
may happen. Session names are reused once nothing refers to them. `SessionEnds` is an exit, a broken
connection or `Reconnect`.

**`Lifecycle`** is what the supervisor promises: which processes and which session an upstream may have
in which of its states, and which states may follow which. A process group is launched and a session
opened only while the upstream is starting and nothing of an earlier run is left; `Ready` comes only with a
session; every other change of state, but to `Stopped`, comes after both are gone; `Failed` and
`Stopped` are final. `Supervisor` implements it with `procs` the sessions that have a group.

**`Catalog`** extends `Supervisor`: `OnChange` becomes a sync that takes `Gateway.mu` (`lock`),
reads the upstreams of the namespace one at a time (`Read`) and registers what it read
(`unlock`); `RefreshAll` does so for every namespace once `Start` has returned. `holder` is who has
the lock; a sync is owed by whoever is before it, or holds the lock and has yet to read.

**`UpstreamAuth`** is the OAuth client of one upstream: the `entry` of
`internal/upstreamauth` with its row in the store, `StartLogin` with the goroutine it starts
(`login`: the probe, the wait for the code, the exchange, the installation, `OnLogin`,
`clearLogin`), the callback, `AutoLogin` (`auto`), the requests of the upstream's sessions
(`req`: `Token` with its refresh and its save, the request, the answer to a 401) and as much of the
run loop as asks for a handler, waits, connects and is reconnected (`run`). `Connect` names the
request of the handshake; others may outlive their session. Handlers and rows are
known by the grant they hold; `loaded` is the grant of the handler that `New` built from the row,
the only kind whose fetcher drops the credentials. A closed channel is a member of `closed`, and
`ready` counts the channels an entry has had. Abstractions: whether an access token has
expired is a free choice at each request; several goroutines of `OnInvalidate` are one flag, since
another close of the session is the same as `SessionEnds`; the tokens of one grant are not told
apart; publishing the URL and returning it is one step; the run loop is never given up
on (that is `Supervisor`'s). A request is `stuck` when it sends on a full `urlCh`, which
no context ends. That the SDK calls a handler's fetcher upon a 401 is what `handlerFor`'s comment
relies on.

**`LoginGate`** is what `Wait` and `awaitOAuth` promise: a gate that is open while there are credentials, and
sleepers who are called at once when it is open and by the next login when it is not. The run
loop leaves only when called; autoLogin also when the login it has started is over. In `UpstreamAuth` a
sleeper is called when the channel it holds is closed (`Places`).

**`Audit`** is the sink with its channel and writer, retention, and the shutdown of `main` in the
order of its deferred calls: drain, `sup.Stop`, `sink.Close`, `store.Close`. `call` follows
each tool call and its row to its end. `serving` says that requests come in: until the
signal, or for good after a listen error, which ends `run` without a drain. What a row says is
left out.

**`AuditQueue`** is what the log promises: a queue that accepts a row at its end, or drops it when the buffer is
full, writes rows from its front, and is over only once it is closed and empty. In `Audit` the queue is
the writer's row followed by the channel (`Pending`).

**`AuditTail`** extends `Audit` with the table and one `gateway audit tail -f`, a process of its own:
`InsertRow` and `DeleteRow` are the statements of the writer and of retention with the ids SQLite
gives (`NextId`), `TailStarts` and `TailPolls` the queries of `runAudit`. `highest`, `passed`, `again` and
`before` are history variables that only the properties read. Filters are left out.

**`Names`** has the name `s__t` as a sequence of characters, `strings.Cut` at the first separator,
and `nameRule`.

**`Config`** is one file on its way from decoding to the running components: `ApplyDefaults`, `Expand`,
`Accept` or `Refuse` (the conjuncts of `valid` are the errors that `validate` collects), and
`Construct`, the checks that `auth.New`, `ui.New` and the mux make of the result. A text that only is
set or not is a Boolean; `PathChanges` lets PATH lead to another executable at any time.

**`ToolNames`** extends `Config` with one namespace of an accepted file: what each upstream offers
(`offers`, which `OfferChanges` changes as upstreams come, go and notify), `Sync`, which is
`syncLocked` in every mode with what it does to the MCP server (`served`), and the meta tools
(`toolInfos`, `callTool`). A sync is one step here, as `Catalog` has what happens while it reads.

**`MCDispatch`**, **`MCSupervisor`**, **`MCCatalog`**, **`MCUpstreamAuth`**, **`MCAudit`**,
**`MCToolNames`** define the instances.

In each module a definition named `X_Something` next to `X` is a faulty variant of it: one
plausible slip in the code. The properties of a run are known to notice: with the variant in the
place of `X`, the run fails.

## Runs

| Run | Checks | Shows |
|---|---|---|
| `dispatch_safety` | `TypeOK` `SlotAccounting` `InFlightBounded` `BreakerConsistent` `OnlyUpstreamCounts` | 3 requests, 2 upstreams in 2 namespaces; every kind of limit (default, override, none) and breakers with threshold 2 |
| `dispatch_live` | `NoCircularWait` `CallsFinish` `KeepsPromise` | requests that hold one slot and wait for another never wait in a circle; one with a deadline is answered whatever it waits for, unless it is itself blocked in an OAuth upstream; if every call returns, all are answered, with a deadline and without; refinement of `CallLimits` |
| `dispatch_lost_trial` | `TrialEnds` (violated) | finding 1 |
| `dispatch_two_trials` | `OneTrialAtATime` (violated) | finding 2 |
| `sup_live` | `StopEnds` `CrashLoopEnds` `StartReturns` | a child process, or a remote upstream with a login: `Stop` ends the loop from any point (of the remote one if its requests return), `Start` returns if no `tools/list` hangs, a crash loop is given up on |
| `sup_stale_tools` | `CacheFresh` (violated) | finding 3 |
| `catalog_safety` | `TypeOK` `NoStrayProcess` `CatalogTypeOK` `RegisteredOwed` `ExitedGone` `KeepsLifecycle` | a child process with descendants, two sessions' handlers, pings, `Stop` anywhere, syncs throughout; no update is lost, and the tools of a failed or stopped upstream are gone for good; refinement of `Lifecycle` |
| `names` | `TypeOK` `AcceptedStarts` `BinaryPinned` `LimitsUsable` `ListedIsCalled` `ServedAsRegistered` `SyncShowsOffers` | every file of the instance from decoding to serving, then syncs, changing tools and a changing PATH; also the accepted files whose names collide, for all names but the colliding ones |
| `auth` | `TypeOK` `ReadyTellsHandler` `NoLostWakeup` `LoadedRevocationNoticed` `KeepsGate` | credentials in the store, a login next to autoLogin, rejections through old and new handlers, one restart; a revoked grant that was loaded is dropped if sessions send requests; refinement of `LoginGate` |
| `auth_revoked` | `RevocationNoticed` (violated) | finding 4 |
| `audit` | `TypeOK` `FlushedAtExit` `ShutdownEnds` `NeverBlocks` `TailTypeOK` `ShownOnce` `ShownInOrder` `NoneLeftOut` `KeepsQueue` | calls that end before, during and after the drain; a full buffer; a writer that is slow or stuck; shutdown after a signal and after a listen error, if `sup.Stop` and the inserts return; a tail next to inserts and retention; refinement of `AuditQueue` |
| `audit_late_call` | `NoObserveAfterClose` (violated) | finding 5 |

**Bounds.** Three requests are the least with which a straggler, a trial and a second trial
meet, and with which two wait while one holds. Two upstreams tell an upstream's own limit and
breaker from its neighbour's. Two sessions let a handler of the previous one overlap
the next; two tool lists tell old from new. `MaxFailures` 2 has one restart and one give-up (the
reset needs both). One upstream suffices for the run loop, which shares nothing with
others but the context and `Gateway.mu`. `sup_live` has a child process and a remote upstream with a login and
runs either loop after the other upstream has been given up on, a state that `Start` comes
to (`OneLoopInit`); it has one tool list, as nothing it checks depends on its contents. `dispatch_live` has an
upstream with a deadline that may block and one with neither.
`auth` has two grants, so that a handler can be replaced, one request next to the handshake's, so
that two rejections overlap, and one restart, after which the grant of a login is a loaded one.
`audit` has three calls for a buffer of one: one with the writer, one buffered, one dropped; and
three rows are the least with which a page of one row lags behind, a tail of two rows leaves one out, and
an id above 1 is given again.
`names` has files that differ from a plain one in one section at a time, since `validate` relates
fields of one section only (and of `auth` and `ui`, which vary together); numbers are -1, 0 and 1, the
three signs that it tells apart. Its servers' names have the separator's character at the end, in the
middle, twice in the middle, or not at all, next to each other; its two tools have it in front or
not; two revisions tell a tool from its successor.
Requests, session names and tool lists are symmetric in the safety runs (a refinement without fairness is
one); no liveness run uses symmetry. `KeepsLifecycle` is checked with a child process; its steps through
`needsLogin` are those of a remote upstream, for which `ImplementsLifecycle` proves it as for all. `CHECK_DEADLOCK FALSE` stands where the system stops: after `Stop` every loop ends, a
process that has exited does nothing, an upstream without a login may wait for ever, and a
file may be refused.

**Fairness.** Goroutines run and timers fire (weak fairness of each step). A `select` with
several ready cases chooses at random, so the exit and the stop of a serving loop are strongly
fair against pings. Senders on a channel are served first in first out: `Acquire` is strongly
fair. What the code does not guarantee is not assumed, or is a premise of the property that needs it:

* A request is ended by its context, except that one to an OAuth upstream may block for ever in the
  fetcher of a finished login (finding 4). Nothing makes the requests of such an upstream return once `Start`
  has had its first signal of it (`MayBlock`; there are no logins before), nor its calls
  in `Dispatch`. `StopEnds` assumes it of an OAuth upstream (`RequestsReturn`; a handshake then ends by
  `StartTimeout`, a ping by its own deadline), and of no other; `CallsFinish` says first what holds
  without it, then what holds with it (`AllReturn`). TLC refutes `StopEnds` without the premise. A
  `Stop` that hangs so keeps `main` from closing the sink: `ShutdownEnds` assumes `StopFairness`.
* A call without a deadline ends when its upstream answers: this too is in `AllReturn`, and is
  assumed of upstreams that are not in `OAuth`, else nothing could be promised.
* `tools/list` has no deadline: it ends when the server answers, exits or is stopped, and only the
  last two are fair (`Finishes`). `StartReturns` assumes that none hangs, and TLC refutes it otherwise.
* An idle session sends no request where pings are off, are not supported or do not exist in the
  protocol (`supervisor.go:427-436`): that a revoked grant meets a 401 is the premise `SessionsUsed` of
  `LoadedRevocationNoticed`.
* Inserts return (with an error after `busy_timeout`) as a premise of `ShutdownEnds` alone; `NeverBlocks`
  holds without it.
* Nobody need ever log in, and nothing makes a signal come.

In `sup_live`
`StableAfter` may pass during the wait for a login but not during `tools/list` (`SlowStart`): with
a `tools/list` that takes `StableAfter` and then fails, each run resets the counter, the upstream is
never given up on, and TLC shows that `Start` never returns.

In `auth` a login ends by `loginTimeout` at the latest, and requests that are not stuck end; the one strong
fairness says that the network does not fail every request that the server would have rejected. Users,
browsers, autoLogin and the authorization server need never do anything. In `audit` `Drained`
stands for the drain's 15 seconds.

## Findings

1. *A trial call can get lost.* `allow` marks the trial, but a call that then times out in the
   queue, or finds the upstream not ready, calls neither `success` nor `failure`: the breaker
   stays half-open and rejects every call until the restart (`limits.go:108-111`,
   `gateway.go:252-254,261-262`).
2. *Two trials at once.* `failure` clears `trial` for any caller, also for one admitted before the
   breaker opened (`limits.go:131`).
3. *An older tool list can overwrite a newer one*, and stays until the next change
   (`supervisor.go:536-537`).
4. *A revoked grant of a login can go unnoticed, and then blocks its upstream.* The handler of a login
   keeps that login's fetcher. A 401 makes it publish another URL to a channel that nobody
   reads and wait for a code that cannot come; the next one blocks on the full channel, and the
   connect of the run loop with it, outside every deadline. `Stop` then waits for that loop, and
   shutdown for `Stop`; a tool call that blocks there keeps its slots past its deadline. Only handlers built from the store at
   start call `invalidate`, and those of logins when a refresh is refused (`manager.go:338-354`).
5. *A late call reports to the closed sink.* Requests that outlast the drain, and all
   requests after a listen error, may call `Observe` after `sink.Close`, which panics (`main.go:163`,
   `sink.go:64,78`).

Seen while modelling, with no run of their own:

* A JSON-RPC error of a healthy upstream or a client's cancellation counts at the breaker, which is
  documented for "transport errors or timeouts" (`gateway.go:263`, `limits.go:75`).
* `Start` waits through all restarts of an upstream whose first start failed (`supervisor.go:344`,
  against `supervisor.go:190-192`).
* The stable reset counts time that was not up: the wait for a login precedes the connect but
  follows `started` (`supervisor.go:322,329`).
* A login saves its row before it installs its handler; a rejection of the old handler in
  between deletes the new row, and the next start has no credentials (`manager.go:361,397`).
* `OnLogin` closes the session there is; a run that is still connecting with the replaced handler
  goes on with it (`supervisor.go:287`).
* A tail of an empty log never prints its first row (`audit.go:69`), and one that runs while retention
  deletes the end of the table misses the rows that get those ids again (`schema.sql:2`).
* `AcceptedStarts` is about starting only. A server that a namespace lists twice is accepted (`config.go:341`): its `Upstream` gets two run
  loops, against `README.md:279`, and at shutdown the second `close(u.done)` panics
  (`supervisor.go:310`).
* `nameRule` admits `__` in a server's name and `_` at its end. Then a name that `search_tools` lists may
  lead `call_tool` to another tool or to none (`discovery.go:139`, against `README.md:109`). Two tools
  may share a name, against `docs/design.md:121` ("prefixing makes them impossible"): the servers `a` and
  `a_` with the tools `_b` and `b` do. Then every sync after the first finds the winner registered as it
  was, adds the loser again (against `gateway.go:70-72`) and leaves the name calling the loser
  (`gateway.go:188-191`). The run `names` has such files. Its properties hold for every name in them but those that
  are hit: what `call_tool` does for servers in whose names the separator cannot be mistaken (`Unambiguous`), what
  a name is served as where no other server has the same (`OneOwner`), whatever collides next to them. That the names
  served are those registered and those offered holds of all. No run records the collision itself.
* In connector mode `{server}__list_tools` lists `server__tool` (`discovery.go:200`), and `{server}__call`, whose
  schema asks for a "tool name as returned by list_tools" (`discovery.go:58`), knows only the bare `tool`
  (`discovery.go:137,153`): a name passed on as listed is refused.
* `CallTimeout` zero does not mean "no deadline" (`config.go:57`), as `applyDefaults` makes it 60 s
  (`config.go:221`): no file can turn the deadline off.
* A negative `audit.retention_days` is accepted, and prunes every row (`sink.go:115`).

## Proofs

`DispatchProofs` proves, for every finite set of requests, any namespaces and upstreams and any
limits, timeouts and threshold (`LimitsAssumption`, `DispatchAssumption`):

* `TypeCorrect`, `SlotsAccounted`, `BreakersConsistent`, `InFlightAlwaysBounded` (invariants),
* `NeverCircular` (an invariant: no set of requests waits for itself),
* `OnlyUpstreamsCount` (an action property),
* `ImplementsCallLimits`: `Spec => KeepsPromise`, the safety part of the refinement.

All rest on one inductive invariant, `IInv`. `SlotAccounting` alone is not inductive: that
`Release` removes its request from the holders of exactly one semaphore needs `StagesAgree` (how many
semaphores a request has passed at each place) and `PathFacts` (the three are
different). `BreakerConsistent` needs `FailuresBounded` (the count stops at the threshold).
`InFlightBounded` follows from `SlotAccounting` and `TokensBounded`, as those that are upstream
are among the holders of each of their scopes. For the refinement, `RoomToEnter` shows that
when the third semaphore is acquired every scope has room: the caller holds a slot there and is
not yet running, so those running are strictly fewer than the tokens. `NeverCircular` is the argument from
lock order: a scope has the same place in every `Path` (`PlaceInPath`), so whoever holds the slot a request waits
for has passed more semaphores than that request (`HoldersAreAhead`); of any requests that wait, the one
furthest along waits for somebody who is not among them.

`UpstreamAuthProofs` proves `TypeCorrect`, `ReadyChannelTellsHandler` and `NoWakeupLost` for any
number of requests, grants and restarts (`UpstreamAuthAssumption`). The two invariants are only
inductive together: `invalidate` replaces the channel and leaves its waiters behind, and what they
hold is closed because `ReadyTellsHandler` says that a channel which is replaced was closed;
`Install` closes the channel in use exactly when there was no handler. `Granted` keeps the grant that is
installed from being none. `ImplementsGate` is the refinement of `LoginGate`, one lemma per part of `Next`. It stands on both
invariants: that a closed channel means a handler makes who comes to an open gate called at once,
and that waiters hold the entry's channel makes `Install` call all of them; `Connecting`, that the
handshake's request exists only while the run loop connects, keeps answers to it from moving a
run loop that waits.

`AuditProofs` proves `TypeCorrect` and `RowsFlushed` for any set of calls and any buffer
(`AuditAssumption`). `FlushedAtExit` needs to know where an accepted row is (`RowsHeld`: in the
channel or with the writer), that the writer ends only when nothing is left and nothing can
be added (`WriterGone`), and how far `main` is when (`Progress`). `ImplementsQueue` is the refinement of `AuditQueue`. It
needs in addition that a call is in the channel once, and not there when it is with the writer
(`Held`): the row that `Receive` moves is the front before and after, so that the step is a stutter, and the
others keep their fate. `Observe` meets the queue's guards since the writer holds at most one row, and
`CloseStore` finds the queue empty by `WriterGone` and `Progress`.

`SupervisorProofs` proves `TypeCorrect` (types, and `FailuresBelow`) and `NoStrays` for any number of upstreams and sessions, any
tool lists and any `MaxFailures` (`SupervisorAssumption`). `NoStrayProcess` speaks of loops between runs; that it
survives each step needs to know which run a group belongs to while it has one (`AliveRuns`), and
the type of the failure counter needs `FailuresBelow`: outside the give-up it is less than the
maximum, so that one more failure stays in range. `ImplementsLifecycle` is the refinement of `Lifecycle`. Its
steps are only possible where the state, the session and the child fit the place of the run loop (`Fit`:
`StateFits`, `SessionFits`, `ChildFits`), which is inductive on top of `NoStrayProcess`; what
sweeps a group, what changes a state between runs and what leaves both alone is then one lemma for
each kind of step (`Sweeps`, `Becomes`), used by every action of that kind.

`CatalogProofs` lifts this to `CatalogSpec`, whose steps are those of the run loops with `Gateway.mu` and the
syncs added, and proves `CatalogTypeCorrect` (types, and `HolderOwes`), `NoUpdateLost` and `ExitedStayGone`, and that the composition implements the
supervisor (`CatalogRunsSupervisor`), so that `Lifecycle` holds next to any syncs (`CatalogKeepsLifecycle`). `RegisteredOwed` alone is not
inductive: a sync that is half done has read some upstreams before they changed. The invariant says that
what the holder of the lock has already read is `Tools()` as it is, or else another goroutine still owes
a sync (`SyncSound`, with `OwedApart` for "another than the holder"), and that the holder itself
owes one (`HolderOwes`). `ExitedGone` follows from `Gone`: a loop that has ended left a state in which `Tools()` is
nothing, and handlers, which store but cannot change that state, cannot undo it; `Placed` ties the
state of an upstream to the place of its loop.

`NamesProofs` proves of the naming, for names of any length over any characters: `CutOfFullName`, that cutting
`s__t` gives `s` and `t` back when `s` has no separator and does not end in an underscore, whatever
`t` is; and `FullNamesDiffer`. The case that matters is a `t` that begins with an underscore.

`ToolNamesProofs` proves, for all files, environments, executables and tools (`ConfigAssumption` says
what type a decoded file has, `ToolsAssumption` that tool names are texts): `AcceptedFilesStart`,
`BinariesPinned`, `LimitsAlwaysUsable`, `ListedAreCalled`, and of the catalog `TypeCorrect`,
`ServedIsRegistered` and `SyncsShowOffers`, which say of names two servers share only that they are
served when they are offered; `UnambiguousOwnTheirs` says which namespaces have no such names. The invariant, `ConfigIInv`, follows the
file: that a token comes from its variable only (from `expand` on, without which a
Cloudflare file with a token would pass `validate` and fail `auth.New`), that defaults are in
place (from `applyDefaults` on), and what of `validate` outlives `pinned`. `ListedAreCalled` then
is `CutOfFullName` for the servers of the namespace, which `validate` has found. For the catalog,
`ToolsIInv` adds that the MCP server has the names that `registered` has, and what it says of those only one
server can have. A name that is wanted and not registered differs in every round of `syncLocked`'s loop that
wants it, and so is added (`SyncLeavesNames`), shared or not. All rounds over a name that one server has
make the same entry (`OneEntry`), so that what a sync leaves of it is what it wanted, whether it was added or
left as it was (`SyncLeaves`). That the last
round exists is that a finite set of numbers has a greatest one, which comes from the well-foundedness
of `<` on the distances to a bound (`MaxOf`).

`AuditTailProofs` proves `TailTypeCorrect`, `EachShownOnce`, `PrintedInOrder` and `NothingLeftOut` of `TailSpec`, for any calls and
any `-n` and page (`AuditAssumption`, `TailAssumption`), on top of the invariant of `AuditProofs`, which every step
of the composition keeps. A row has to be followed from the channel on: that a call is buffered once
(`Held`, of `AuditProofs`) makes its row the only one with that call (`OneRow`), and that printed rows which are still in
the table do not come after `last` (`Printed`) keeps the next page apart from them. For `NoneLeftOut` a page
must be the first rows after `last` without a gap (`PageIsFirst`, by counting those before a row), and a
new id must follow all ids of the table (`NextIdFollows`). Ids that are given again say nothing about age, but
within the table the greater id is always the younger row, and what the tail has still to print is
younger than all it has printed (`ByAge`): that gives `ShownInOrder`. `TailRunsLog` and `TailKeepsQueue` carry the
results about the log over to the composition.

Only model-checked: the liveness properties (`CallsFinish`, `StopEnds`, `CrashLoopEnds`, `StartReturns`,
`LoadedRevocationNoticed`, `ShutdownEnds`, `NeverBlocks`), as the prover has no rules for fairness and
`ENABLED`; and the runs that expect a violation.

## Not modelled

* Arguments, results, logs, audit rows and messages: data no property here tells apart.
* The `list_changed` notices to clients, and sessions of clients.
* Reuse of process numbers by the kernel; panics; memory.
* Of the OAuth manager: which of two saved tokens of a grant is newer, client metadata,
  contexts that end at shutdown, the daily checkpoint. `Supervisor` keeps its own view of
  it (`creds`, `LoginFails`), which admits whatever it may answer before a run; that it may block a request for
  good is a matter of fairness there (`MayBlock`).
* Of the audit log: rows' contents, filters, the HTTP query.
* Of discovery: the scoring of the text search, a function of strings; and the two tools of each
  server in connector mode, which cut no name.
* Bearer tokens and the dashboard's cookie are checked once per request, against keys that
  libraries cache: a decision without state, whose cases are those of its tests. Redaction rewrites
  one JSON text. The dashboard renders, and the health check makes one request; `fakeserver` helps tests.
