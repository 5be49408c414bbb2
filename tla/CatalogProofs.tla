----------------------------- MODULE CatalogProofs -----------------------------
(***************************************************************************)
(* That no update of a tool list is lost between the run loops and the     *)
(* syncs, and that the syncs do to the supervisor nothing but return from  *)
(* OnChange, for any upstreams, namespaces and sessions.                   *)
(***************************************************************************)
EXTENDS Catalog, SupervisorProofs

\* Whoever holds the lock has a sync to make.
HolderOwes ==
    /\ \A u \in Ids : holder = Loop(u) => owes[u]
    /\ \A u \in Ids, s \in Sessions : holder = Handler(u, s) => handler[u][s].pc = "notify"

\* An upstream is Ready only from the step that makes it so to the account of its run,
\* and a loop that has ended owes no sync.
Placed(u) ==
    /\ state[u] = "ready" => pc[u] \in {"settle", "serve", "ping", "close", "clear", "account"}
    /\ pc[u] = "exit" => ~owes[u]
StatePlaces == \A u \in Ids : Placed(u)

\* A sync of u is owed by somebody other than g.
OwedApart(u, g) ==
    \/ owes[u] /\ g # Loop(u)
    \/ pc[u] = "account"
    \/ \E s \in Sessions : handler[u][s].pc = "notify" /\ g # Handler(u, s)

\* What the sync under way is going to register of an upstream that it has read, or
\* does not read, is what Tools() says, or another sync follows.
SyncSound ==
    holder # NoOne =>
        \A u \in Ids \ unread :
            NsOf[u] \in Native => want[u] = Tools(u) \/ OwedApart(u, holder)

\* Once the last sync of a loop is made nothing of its upstream is registered, nor
\* about to be.
Gone ==
    \A u \in Ids : pc[u] \in {"leave", "exit"} /\ NsOf[u] \in Native =>
        /\ ~owes[u] => registered[u] = None
        /\ holder # NoOne /\ u \notin unread /\ (~owes[u] \/ holder = Loop(u)) => want[u] = None

CatalogIInv ==
    /\ IInv /\ CatalogTypeOK
    /\ HolderOwes /\ StatePlaces /\ RegisteredOwed /\ SyncSound /\ Gone

(***************************************************************************)
(* What the steps of the supervisor do to an upstream, as far as a sync    *)
(* can tell.                                                               *)
(***************************************************************************)

NewlyOwed(u) ==
    \/ ~owes[u] /\ owes'[u]
    \/ pc'[u] = "account"
    \/ \E s \in Sessions : handler[u][s].pc # "notify" /\ handler'[u][s].pc = "notify"

Effects(u) ==
    /\ owes[u] => owes'[u] /\ pc'[u] = pc[u]
    /\ \A s \in Sessions : handler[u][s].pc = "notify" => handler'[u][s].pc = "notify"
    /\ Tools(u)' = Tools(u) \/ NewlyOwed(u)
    /\ pc[u] = "account" => pc'[u] = "account" \/ (~owes[u] /\ owes'[u])
    /\ pc'[u] \in {"leave", "exit"} /\ pc[u] \notin {"leave", "exit"} => ~owes[u] /\ owes'[u]

\* What a step towards Ready does.
LEMMA StartsEffects ==
    ASSUME TypeOK, StatePlaces, NEW u \in Ids, NEW v \in Ids, Starts(v)
    PROVE  Effects(u) /\ Placed(u)'
<1>1. CASE Begin(v)
    BY <1>1
    DEF Begin, At, Goto, cache, handlers, world, TypeOK, Effects, NewlyOwed,
        Tools, StatePlaces, Placed
<1>2. CASE HasLogin(v)
    BY <1>2
    DEF HasLogin, At, Goto, run, cache, handlers, world, TypeOK, Effects,
        NewlyOwed, Tools, StatePlaces, Placed
<1>3. CASE NeedsLogin(v)
    BY <1>3
    DEF NeedsLogin, At, Goto, setState, run, cache, handlers, world, TypeOK,
        Effects, NewlyOwed, Tools, StatePlaces, Placed
<1>4. CASE LoginFails(v)
    BY <1>4
    DEF LoginFails, At, Goto, run, cache, handlers, world, TypeOK, Effects,
        NewlyOwed, Tools, StatePlaces, Placed
<1>5. CASE Parked(v)
    BY <1>5
    DEF Parked, At, Goto, signalFirst, run, cache, handlers, world, TypeOK,
        Effects, NewlyOwed, Tools, StatePlaces, Placed
<1>6. CASE LoggedIn(v)
    BY <1>6
    DEF LoggedIn, At, Goto, setState, run, cache, handlers, world, TypeOK,
        Effects, NewlyOwed, Tools, StatePlaces, Placed
<1>7. CASE WaitCancelled(v)
    BY <1>7
    DEF WaitCancelled, At, Goto, run, cache, handlers, world, TypeOK, Effects,
        NewlyOwed, Tools, StatePlaces, Placed
<1>8. CASE Spawn(v)
    BY <1>8
    DEF Spawn, At, Goto, Unused, cache, handlers, TypeOK, Effects, NewlyOwed,
        Tools, StatePlaces, Placed
<1>9. CASE Connected(v)
    BY <1>9
    DEF Connected, At, Goto, handlers, world, TypeOK, Effects, NewlyOwed, Tools,
        StatePlaces, Placed
<1>10. CASE ConnectFails(v)
    BY <1>10
    DEF ConnectFails, At, Goto, killGroup, cache, handlers, TypeOK, Effects,
        NewlyOwed, Tools, StatePlaces, Placed
<1>11. CASE ListAnswers(v)
    BY <1>11
    DEF ListAnswers, At, Goto, cache, handlers, world, TypeOK, Effects, NewlyOwed,
        Tools, StatePlaces, Placed
<1>12. CASE ListFails(v)
    BY <1>12
    DEF ListFails, At, Goto, run, cache, handlers, world, TypeOK, Effects,
        NewlyOwed, Tools, StatePlaces, Placed
<1>13. CASE StoreTools(v)
    BY <1>13
    DEF StoreTools, At, Goto, handlers, world, TypeOK, Effects, NewlyOwed, Tools,
        StatePlaces, Placed
<1>14. CASE BecomeReady(v)
    BY <1>14
    DEF BecomeReady, At, Goto, setState, run, cache, handlers, world, TypeOK,
        Effects, NewlyOwed, Tools, StatePlaces, Placed
<1>15. CASE Settle(v)
    BY <1>15
    DEF Settle, At, Goto, signalFirst, cache, handlers, world, TypeOK, Effects,
        NewlyOwed, Tools, StatePlaces, Placed
<1> QED
    BY <1>1, <1>2, <1>3, <1>4, <1>5, <1>6, <1>7, <1>8, <1>9, <1>10, <1>11, <1>12, <1>13,
       <1>14, <1>15 DEF Starts

\* What a step of a serving run, or of its end does.
LEMMA ServesEffects ==
    ASSUME TypeOK, StatePlaces, NEW u \in Ids, NEW v \in Ids, Serves(v)
    PROVE  Effects(u) /\ Placed(u)'
<1>1. CASE Cancelled(v)
    BY <1>1
    DEF Cancelled, At, Goto, setState, run, cache, handlers, world, TypeOK,
        Effects, NewlyOwed, Tools, StatePlaces, Placed
<1>2. CASE Exited(v)
    BY <1>2
    DEF Exited, At, Goto, killGroup, run, cache, handlers, TypeOK, Effects,
        NewlyOwed, Tools, StatePlaces, Placed
<1>3. CASE Tick(v)
    BY <1>3
    DEF Tick, At, Goto, run, cache, handlers, world, TypeOK, Effects, NewlyOwed,
        Tools, StatePlaces, Placed
<1>4. CASE PingAnswers(v)
    BY <1>4
    DEF PingAnswers, At, Goto, cache, handlers, world, TypeOK, Effects, NewlyOwed,
        Tools, StatePlaces, Placed
<1>5. CASE PingMoot(v)
    BY <1>5
    DEF PingMoot, At, Goto, run, cache, handlers, world, TypeOK, Effects,
        NewlyOwed, Tools, StatePlaces, Placed
<1>6. CASE PingUnsupported(v)
    BY <1>6
    DEF PingUnsupported, At, Goto, handlers, world, TypeOK, Effects, NewlyOwed,
        Tools, StatePlaces, Placed
<1>7. CASE PingFails(v)
    BY <1>7
    DEF PingFails, At, Goto, run, cache, handlers, world, TypeOK, Effects,
        NewlyOwed, Tools, StatePlaces, Placed
<1>8. CASE shutdown(v)
    BY <1>8
    DEF shutdown, At, Goto, killGroup, run, cache, handlers, TypeOK, Effects,
        NewlyOwed, Tools, StatePlaces, Placed
<1>9. CASE Clear(v)
    BY <1>9
    DEF Clear, At, Goto, handlers, world, TypeOK, Effects, NewlyOwed, Tools,
        StatePlaces, Placed
<1> QED
    BY <1>1, <1>2, <1>3, <1>4, <1>5, <1>6, <1>7, <1>8, <1>9 DEF Serves

\* What a step of the loop around the runs does.
LEMMA EndsEffects ==
    ASSUME TypeOK, StatePlaces, NEW u \in Ids, NEW v \in Ids, Ends(v)
    PROVE  Effects(u) /\ Placed(u)'
<1>1. CASE Stopping(v)
    BY <1>1
    DEF Stopping, At, Goto, setState, run, cache, handlers, world, TypeOK,
        Effects, NewlyOwed, Tools, StatePlaces, Placed
<1>2. CASE GiveUp(v)
    BY <1>2
    DEF GiveUp, At, Goto, setState, Failed, TooMany, run, cache, handlers, world,
        TypeOK, Effects, NewlyOwed, Tools, StatePlaces, Placed
<1>3. CASE Retry(v)
    BY <1>3
    DEF Retry, At, Goto, setState, Failed, TooMany, run, cache, handlers, world,
        TypeOK, Effects, NewlyOwed, Tools, StatePlaces, Placed
<1>4. CASE BackoffEnds(v)
    BY <1>4
    DEF BackoffEnds, At, Goto, run, cache, handlers, world, TypeOK, Effects,
        NewlyOwed, Tools, StatePlaces, Placed
<1>5. CASE BackoffCancelled(v)
    BY <1>5
    DEF BackoffCancelled, At, Goto, setState, signalFirst, loop, run, cache,
        handlers, world, TypeOK, Effects, NewlyOwed, Tools, StatePlaces, Placed
<1>6. CASE Leave(v)
    BY <1>6
    DEF Leave, At, Goto, signalFirst, run, cache, handlers, world, TypeOK,
        Effects, NewlyOwed, Tools, StatePlaces, Placed
<1> QED
    BY <1>1, <1>2, <1>3, <1>4, <1>5, <1>6 DEF Ends

\* What a step of the server, its process or the user does.
LEMMA EnvironmentEffects ==
    ASSUME TypeOK, StatePlaces, NEW u \in Ids, NEW v \in Ids, Environment(v)
    PROVE  Effects(u) /\ Placed(u)'
<1>1. CASE SessionEnds(v)
    BY <1>1
    DEF SessionEnds, loop, run, cache, handlers, TypeOK, Effects, NewlyOwed,
        Tools, StatePlaces, Placed
<1>2. CASE ServerChanges(v)
    BY <1>2
    DEF ServerChanges, loop, run, cache, TypeOK, Effects, NewlyOwed, Tools,
        StatePlaces, Placed
<1>3. CASE LoginChanges(v)
    BY <1>3
    DEF LoginChanges, loop, run, cache, handlers, TypeOK, Effects, NewlyOwed,
        Tools, StatePlaces, Placed
<1>4. CASE Stabilise(v)
    BY <1>4
    DEF Stabilise, loop, cache, handlers, world, TypeOK, Effects, NewlyOwed,
        Tools, StatePlaces, Placed
<1> QED
    BY <1>1, <1>2, <1>3, <1>4 DEF Environment

\* What a step of a list_changed handler does.
LEMMA HandlesEffects ==
    ASSUME TypeOK, StatePlaces, NEW u \in Ids, NEW v \in Ids, NEW s \in Sessions, Handles(v, s)
    PROVE  Effects(u) /\ Placed(u)'
<1>1. CASE HandlerStarts(v, s)
    BY <1>1
    DEF HandlerStarts, loop, run, cache, world, Idle, TypeOK, Effects, NewlyOwed,
        Tools, StatePlaces, Placed, Handlers, Lists
<1>2. CASE HandlerAnswered(v, s)
    BY <1>2
    DEF HandlerAnswered, loop, run, cache, world, TypeOK, Effects, NewlyOwed,
        Tools, StatePlaces, Placed, Handlers, Lists
<1>3. CASE HandlerFails(v, s)
    BY <1>3
    DEF HandlerFails, loop, run, cache, world, Idle, TypeOK, Effects, NewlyOwed,
        Tools, StatePlaces, Placed, Handlers, Lists
<1>4. CASE HandlerStores(v, s)
    BY <1>4
    DEF HandlerStores, loop, run, world, Idle, TypeOK, Effects, NewlyOwed, Tools,
        StatePlaces, Placed, Handlers, Lists
<1> QED
    BY <1>1, <1>2, <1>3, <1>4 DEF Handles

\* What every step of the supervisor does.
LEMMA WorksEffects ==
    ASSUME TypeOK, StatePlaces, Works
    PROVE  StatePlaces' /\ \A u \in Ids : Effects(u)
<1> SUFFICES ASSUME NEW u \in Ids PROVE Effects(u) /\ Placed(u)'
    BY DEF StatePlaces
<1>1. CASE \E v \in Ids : Starts(v) \/ Serves(v) \/ Ends(v) \/ Environment(v)
    BY <1>1, StartsEffects, ServesEffects, EndsEffects, EnvironmentEffects
<1>2. CASE \E v \in Ids, s \in Sessions : Handles(v, s)
    BY <1>2, HandlesEffects
<1>3. CASE Stop
    BY <1>3 DEF Stop, StatePlaces, Placed, Effects, NewlyOwed, Tools, loop, run, cache, handlers, world
<1> QED
    BY <1>1, <1>2, <1>3 DEF Works

\* The steps of the supervisor keep the invariant.
LEMMA WorksSound ==
    ASSUME CatalogIInv, Works, UNCHANGED mirror
    PROVE  CatalogIInv'
<1> USE DEF CatalogIInv
<1>1. IInv' /\ StatePlaces' /\ \A u \in Ids : Effects(u)
    BY WorksKeeps, WorksEffects DEF IInv
<1>2. /\ registered' = registered /\ holder' = holder /\ unread' = unread
      /\ want' = want /\ booted' = booted
    BY DEF mirror
<1>3. CatalogTypeOK'
    BY <1>2 DEF CatalogTypeOK
<1>4. HolderOwes'
    BY <1>1, <1>2 DEF HolderOwes, Effects, Loop, Handler
<1>5. RegisteredOwed'
    BY <1>1, <1>2 DEF RegisteredOwed, Owed, Effects, NewlyOwed
<1>6. ASSUME NEW u \in Ids, OwedApart(u, holder) \/ NewlyOwed(u)
      PROVE  OwedApart(u, holder)'
    BY <1>1, <1>2, <1>6 DEF HolderOwes, OwedApart, Effects, NewlyOwed, Loop, Handler
<1>7. SyncSound'
    BY <1>1, <1>2, <1>6 DEF SyncSound, Effects
<1>8. Gone'
    BY <1>1, <1>2 DEF Gone, HolderOwes, Effects
<1> QED
    BY <1>1, <1>3, <1>4, <1>5, <1>7, <1>8

\* The goroutines of the syncs are told apart by what they are called.
LEMMA SyncersDiffer ==
    ASSUME NEW u \in Ids, NEW v \in Ids, NEW s \in Sessions, NEW t \in Sessions
    PROVE  /\ Loop(u) # Handler(v, s) /\ Loop(u) # Main /\ Handler(u, s) # Main
           /\ Loop(u) = Loop(v) => u = v
           /\ Handler(u, s) = Handler(v, t) => u = v /\ s = t
           /\ NoOne \notin {Loop(u), Handler(u, s), Main}
    BY CatalogAssumption DEF Loop, Handler, Main, NoOne, None

\* Gateway.mu is taken: what is registered is sound but for what the sync reads.
LEMMA LockSound ==
    ASSUME CatalogIInv, NEW g \in Syncers, NEW ids \in SUBSET Ids, lock(g, ids),
           \A u \in Ids : g = Loop(u) => owes[u],
           \A u \in Ids, s \in Sessions : g = Handler(u, s) => handler[u][s].pc = "notify",
           \A u \in Ids \ ids : NsOf[u] \in Native =>
                g # Loop(u) /\ \A s \in Sessions : g # Handler(u, s)
    PROVE  CatalogIInv'
<1> USE DEF CatalogIInv
<1>1. /\ holder' = g /\ unread' = ids /\ want' = registered
      /\ registered' = registered /\ booted' = booted /\ UNCHANGED vars
    BY DEF lock
<1>2. IInv' /\ StatePlaces' /\ \A u \in Ids : Tools(u)' = Tools(u)
    BY <1>1 DEF vars, IInv, TypeOK, NoStrayProcess, AliveRuns, FailuresBelow, StatePlaces, Placed, Tools
<1>3. g # NoOne
    BY SyncersDiffer, CatalogAssumption DEF Syncers, Loop, Handler, Main, NoOne, None
<1>4. CatalogTypeOK'
    BY <1>1, <1>3 DEF CatalogTypeOK
<1>5. HolderOwes'
    BY <1>1 DEF HolderOwes, vars
<1>6. RegisteredOwed'
    BY <1>1, <1>2 DEF RegisteredOwed, Owed, vars
<1>7. SyncSound'
    BY <1>1, <1>2 DEF SyncSound, RegisteredOwed, Owed, OwedApart, vars
<1>8. Gone'
    BY <1>1 DEF Gone, vars
<1> QED
    BY <1>2, <1>4, <1>5, <1>6, <1>7, <1>8

\* Each kind of sync is begun for all that it may leave out of date.
LEMMA LocksSound ==
    ASSUME CatalogIInv,
           \/ \E u \in Ids : Refresh(u)
           \/ \E u \in Ids, s \in Sessions : RefreshFromHandler(u, s)
           \/ RefreshAll
    PROVE  CatalogIInv'
<1>1. ASSUME NEW u \in Ids, Refresh(u)
      PROVE  CatalogIInv'
    <2>1. Loop(u) \in Syncers /\ Synced(u) \subseteq Ids
        BY DEF Syncers, Synced
    <2>2. \A v \in Ids : Loop(u) = Loop(v) => v = u
        BY DEF Loop
    <2>3. \A v \in Ids, s \in Sessions : Loop(u) # Handler(v, s)
        BY SyncersDiffer
    <2>4. NsOf[u] \in Native => u \in Synced(u)
        BY DEF Synced
    <2> QED
        BY <1>1, <2>1, <2>2, <2>3, <2>4, LockSound DEF Refresh
<1>2. ASSUME NEW u \in Ids, NEW s \in Sessions, RefreshFromHandler(u, s)
      PROVE  CatalogIInv'
    <2>1. Handler(u, s) \in Syncers /\ Synced(u) \subseteq Ids
        BY DEF Syncers, Synced
    <2>2. \A v \in Ids, t \in Sessions : Handler(u, s) = Handler(v, t) => v = u /\ t = s
        BY DEF Handler
    <2>3. \A v \in Ids : Handler(u, s) # Loop(v)
        BY SyncersDiffer
    <2>4. NsOf[u] \in Native => u \in Synced(u)
        BY DEF Synced
    <2> QED
        BY <1>2, <2>1, <2>2, <2>3, <2>4, LockSound DEF RefreshFromHandler
<1>3. CASE RefreshAll
    <2>1. Main \in Syncers /\ UNION {Synced(u) : u \in Ids} \subseteq Ids
        BY DEF Syncers, Synced
    <2>2. \A v \in Ids : Main # Loop(v) /\ \A s \in Sessions : Main # Handler(v, s)
        BY CatalogAssumption DEF Main, Loop, Handler
    <2> QED
        BY <1>3, <2>1, <2>2, LockSound DEF RefreshAll
<1> QED
    BY <1>1, <1>2, <1>3

\* A sync reads an upstream.
LEMMA ReadSound ==
    ASSUME CatalogIInv, NEW u \in Ids, Read(u)
    PROVE  CatalogIInv'
<1> USE DEF CatalogIInv
<1>1. /\ u \in unread /\ want' = [want EXCEPT ![u] = Tools(u)] /\ unread' = unread \ {u}
      /\ registered' = registered /\ holder' = holder /\ booted' = booted /\ UNCHANGED vars
    BY DEF Read
<1>2. IInv' /\ StatePlaces' /\ \A v \in Ids : Tools(v)' = Tools(v)
    BY <1>1 DEF vars, IInv, TypeOK, NoStrayProcess, AliveRuns, FailuresBelow, StatePlaces, Placed, Tools
<1>3. Tools(u) \in Lists
    BY DEF Tools, Lists, IInv, TypeOK
<1>4. CatalogTypeOK'
    BY <1>1, <1>3 DEF CatalogTypeOK
<1>5. HolderOwes'
    BY <1>1 DEF HolderOwes, vars
<1>6. RegisteredOwed'
    BY <1>1, <1>2 DEF RegisteredOwed, Owed, vars
<1>7. want'[u] = Tools(u) /\ \A v \in Ids \ {u} : want'[v] = want[v]
    BY <1>1 DEF CatalogTypeOK
<1>8. SyncSound'
    BY <1>1, <1>2, <1>7 DEF SyncSound, OwedApart, vars
<1>9. pc[u] \in {"leave", "exit"} => Tools(u) = None
    BY DEF StatePlaces, Placed, Tools
<1>10. Gone'
    BY <1>1, <1>7, <1>9 DEF Gone, vars
<1> QED
    BY <1>2, <1>4, <1>5, <1>6, <1>8, <1>10

\* The end of a sync: what it has read becomes registered, and only the caller's
\* notification is over.
LEMMA UnlockSound ==
    ASSUME CatalogIInv, NEW g \in Syncers, unlock(g), IInv',
           state' = state, tools' = tools, pc' = pc, booted' \in BOOLEAN,
           \A u \in Ids : owes'[u] = (owes[u] /\ g # Loop(u)),
           \A u \in Ids, s \in Sessions :
                handler[u][s].pc = "notify" /\ g # Handler(u, s) => handler'[u][s].pc = "notify"
    PROVE  CatalogIInv'
<1> USE DEF CatalogIInv
<1>1. /\ holder = g /\ unread = {} /\ registered' = want /\ holder' = NoOne
      /\ want' = [u \in Ids |-> None] /\ unread' = unread
    BY DEF unlock
<1>2. g # NoOne
    BY CatalogAssumption DEF Syncers, Loop, Handler, Main, NoOne, None
<1>3. \A u \in Ids : Loop(u) # NoOne /\ \A s \in Sessions : Handler(u, s) # NoOne
    BY CatalogAssumption DEF Loop, Handler, NoOne, None
<1>4. CatalogTypeOK'
    BY <1>1 DEF CatalogTypeOK, Lists
<1>5. HolderOwes'
    BY <1>1, <1>3 DEF HolderOwes
<1>6. StatePlaces'
    BY DEF StatePlaces, Placed
<1>7. RegisteredOwed'
    BY <1>1, <1>2 DEF RegisteredOwed, SyncSound, Owed, OwedApart, Tools
<1>8. SyncSound' /\ Gone'
    BY <1>1, <1>2 DEF SyncSound, Gone
<1> QED
    BY <1>4, <1>5, <1>6, <1>7, <1>8

\* Each kind of sync ends so.
LEMMA UnlocksSound ==
    ASSUME CatalogIInv,
           \/ \E u \in Ids : Refreshed(u)
           \/ \E u \in Ids, s \in Sessions : RefreshedFromHandler(u, s)
           \/ RefreshedAll
    PROVE  CatalogIInv'
<1>1. ASSUME NEW u \in Ids, Refreshed(u)
      PROVE  CatalogIInv'
    <2>1. IInv' /\ Notified(u) /\ unlock(Loop(u)) /\ booted' = booted
        BY <1>1, NotifiedKeeps DEF Refreshed, CatalogIInv
    <2>2. \A v \in Ids : Loop(u) = Loop(v) <=> v = u
        BY DEF Loop
    <2>3. \A v \in Ids : owes'[v] = (owes[v] /\ Loop(u) # Loop(v))
        BY <2>1, <2>2 DEF Notified, CatalogIInv, IInv, TypeOK
    <2>4. Loop(u) \in Syncers /\ booted' \in BOOLEAN
        BY <2>1 DEF Syncers, CatalogIInv, CatalogTypeOK
    <2>5. state' = state /\ tools' = tools /\ pc' = pc /\ handler' = handler
        BY <2>1 DEF Notified, cache, handlers
    <2> QED
        BY <2>1, <2>3, <2>4, <2>5, UnlockSound
<1>2. ASSUME NEW u \in Ids, NEW s \in Sessions, RefreshedFromHandler(u, s)
      PROVE  CatalogIInv'
    <2>1. IInv' /\ HandlerNotified(u, s) /\ unlock(Handler(u, s)) /\ booted' = booted
        BY <1>2, HandlerNotifiedKeeps DEF RefreshedFromHandler, CatalogIInv
    <2>2. \A v \in Ids : Handler(u, s) # Loop(v)
        BY SyncersDiffer
    <2>3. Handler(u, s) \in Syncers /\ booted' \in BOOLEAN
        BY <2>1 DEF Syncers, CatalogIInv, CatalogTypeOK
    <2>4. state' = state /\ tools' = tools /\ pc' = pc /\ owes' = owes
        BY <2>1 DEF HandlerNotified, cache, loop
    <2>5. \A v \in Ids : owes'[v] = (owes[v] /\ Handler(u, s) # Loop(v))
        BY <2>2, <2>4 DEF CatalogIInv, IInv, TypeOK
    <2>6. \A v \in Ids, t \in Sessions :
            handler[v][t].pc = "notify" /\ Handler(u, s) # Handler(v, t)
                => handler'[v][t].pc = "notify"
        BY <2>1 DEF HandlerNotified, Handler, CatalogIInv, IInv, TypeOK
    <2> QED
        BY <2>1, <2>3, <2>4, <2>5, <2>6, UnlockSound
<1>3. CASE RefreshedAll
    <2>1. unlock(Main) /\ UNCHANGED vars /\ booted' \in BOOLEAN
        BY <1>3 DEF RefreshedAll
    <2>2. IInv'
        BY <2>1 DEF CatalogIInv, vars, IInv, TypeOK, NoStrayProcess, AliveRuns, FailuresBelow
    <2>3. \A v \in Ids : owes'[v] = (owes[v] /\ Main # Loop(v))
        BY <2>1, CatalogAssumption DEF vars, Main, Loop, CatalogIInv, IInv, TypeOK
    <2>4. Main \in Syncers
        BY DEF Syncers
    <2>5. state' = state /\ tools' = tools /\ pc' = pc /\ handler' = handler
        BY <2>1 DEF vars
    <2> QED
        BY <2>1, <2>2, <2>3, <2>4, <2>5, UnlockSound
<1> QED
    BY <1>1, <1>2, <1>3

\* The initial states satisfy the invariant.
LEMMA CatalogInitHolds == CatalogInit => CatalogIInv
<1> SUFFICES ASSUME CatalogInit PROVE CatalogIInv
    OBVIOUS
<1>1. IInv
    BY InitHolds DEF CatalogInit
<1>2. CatalogTypeOK
    BY DEF CatalogInit, CatalogTypeOK, Lists
<1>3. \A u \in Ids : Loop(u) # NoOne /\ \A s \in Sessions : Handler(u, s) # NoOne
    BY CatalogAssumption DEF Loop, Handler, NoOne, None
<1>4. HolderOwes /\ StatePlaces /\ RegisteredOwed /\ SyncSound /\ Gone
    BY <1>3 DEF CatalogInit, Init, HolderOwes, StatePlaces, Placed, RegisteredOwed, Tools,
        SyncSound, Gone
<1> QED
    BY <1>1, <1>2, <1>4 DEF CatalogIInv

\* Every step keeps the invariant.
LEMMA CatalogStepHolds == CatalogIInv /\ [CatalogNext]_allVars => CatalogIInv'
<1> SUFFICES ASSUME CatalogIInv, [CatalogNext]_allVars PROVE CatalogIInv'
    OBVIOUS
<1>1. CASE Works /\ UNCHANGED mirror
    BY <1>1, WorksSound
<1>2. CASE \E u \in Ids : Read(u)
    BY <1>2, ReadSound
<1>3. CASE UNCHANGED allVars
    BY <1>3 DEF allVars, vars, mirror, CatalogIInv, IInv, TypeOK, NoStrayProcess, AliveRuns,
        FailuresBelow, CatalogTypeOK, HolderOwes, StatePlaces, Placed, RegisteredOwed, Owed,
        Tools, SyncSound, OwedApart, Gone
<1> QED
    BY <1>1, <1>2, <1>3, LocksSound, UnlocksSound DEF CatalogNext

\* The inductive invariant holds throughout.
THEOREM CatalogInvariance == CatalogSpec => []CatalogIInv
<1> QED
    BY CatalogInitHolds, CatalogStepHolds, PTL DEF CatalogSpec

\* Every variable of the syncs keeps its type, nothing is left to read when the lock is
\* free (CatalogTypeOK), and only an actor that owes a sync holds it (HolderOwes).
THEOREM CatalogTypeCorrect == CatalogSpec => [](CatalogTypeOK /\ HolderOwes)
<1>1. CatalogIInv => CatalogTypeOK /\ HolderOwes
    BY DEF CatalogIInv
<1> QED
    BY <1>1, CatalogInvariance, PTL

\* What is registered of an upstream is what Tools() says, or a sync of it is owed
\* (RegisteredOwed): no interleaving of syncs, restarts, Stop and handlers loses an update.
THEOREM NoUpdateLost == CatalogSpec => []RegisteredOwed
<1>1. CatalogIInv => RegisteredOwed
    BY DEF CatalogIInv
<1> QED
    BY <1>1, CatalogInvariance, PTL

\* Nothing of an upstream whose loop has ended is registered, for good (ExitedGone).
THEOREM ExitedStayGone == CatalogSpec => []ExitedGone
<1>1. CatalogIInv => ExitedGone
    BY DEF CatalogIInv, StatePlaces, Placed, Gone, ExitedGone
<1> QED
    BY <1>1, CatalogInvariance, PTL

(***************************************************************************)
(* What holds of the supervisor alone holds of it next to the syncs.       *)
(***************************************************************************)

\* A step of the syncs is one of the supervisor's, or leaves it alone.
LEMMA SupervisorStep == [CatalogNext]_allVars => [Next]_vars
<1> SUFFICES ASSUME [CatalogNext]_allVars PROVE [Next]_vars
    OBVIOUS
<1>1. CASE Works
    BY <1>1 DEF Next
<1>2. CASE \/ \E u \in Ids : Refresh(u) \/ Read(u)
           \/ \E u \in Ids, s \in Sessions : RefreshFromHandler(u, s)
           \/ RefreshAll \/ RefreshedAll
    BY <1>2 DEF Refresh, Read, RefreshFromHandler, RefreshAll, RefreshedAll, lock
<1>3. CASE \E u \in Ids : Refreshed(u)
    BY <1>3 DEF Refreshed, Next
<1>4. CASE \E u \in Ids, s \in Sessions : RefreshedFromHandler(u, s)
    BY <1>4 DEF RefreshedFromHandler, Next
<1>5. CASE UNCHANGED allVars
    BY <1>5 DEF allVars
<1> QED
    BY <1>1, <1>2, <1>3, <1>4, <1>5 DEF CatalogNext

\* The supervisor that syncs whenever it calls OnChange is a supervisor: nothing that
\* the syncs do, Gateway.mu included, gives a run loop a behaviour it has not without.
THEOREM CatalogRunsSupervisor == CatalogSpec => Spec
<1>1. CatalogInit => Init
    BY DEF CatalogInit
<1> QED
    BY <1>1, SupervisorStep, PTL DEF CatalogSpec, Spec

\* Whatever the syncs do meanwhile, the run loops keep to Lifecycle (KeepsLifecycle).
THEOREM CatalogKeepsLifecycle == CatalogSpec => KeepsLifecycle
<1> QED
    BY CatalogRunsSupervisor, ImplementsLifecycle, PTL
=============================================================================
