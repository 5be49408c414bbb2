------------------------------- MODULE Catalog -------------------------------
(***************************************************************************)
(* The tools a namespace offers, next to the supervisor whose cache they   *)
(* are taken from: Gateway.Refresh is the supervisor's OnChange callback,  *)
(* RefreshAll runs once after Start, and both rebuild the registered tools *)
(* of a namespace under Gateway.mu from Upstream.Tools().                  *)
(*                                                                         *)
(* A sync is not one step: it takes the lock, reads the upstreams of the   *)
(* namespace one after the other, each under its own lock, and at the end  *)
(* makes what it has read the registered tools.  The supervisor goes on    *)
(* meanwhile.                                                              *)
(***************************************************************************)
EXTENDS Supervisor

CONSTANTS
    Namespaces, \* the namespaces
    NsOf,       \* the namespace of each upstream
    Native      \* the namespaces in full or hybrid mode

ASSUME CatalogAssumption ==
    /\ NsOf \in [Ids -> Namespaces] /\ Native \subseteq Namespaces
    /\ "loop" \notin Sessions /\ "main" \notin Ids /\ None \notin Ids

VARIABLES
    registered, \* the tool list of each upstream in nsServer.registered
    holder,     \* the goroutine that holds Gateway.mu
    unread,     \* the upstreams its sync has not read yet
    want,       \* what it has read of the others
    booted      \* RefreshAll has run

mirror == <<registered, holder, unread, want, booted>>
allVars == <<vars, mirror>>

\* The goroutines that sync: run loops and handlers in OnChange, and main.
Loop(u) == <<u, "loop">>
Handler(u, s) == <<u, s>>
Main == <<"main", "main">>
NoOne == <<None, None>>
Syncers == {Loop(u) : u \in Ids} \cup {Handler(u, s) : u \in Ids, s \in Sessions} \cup {Main}

\* Types, and that a sync reads only under the lock it was begun with.
CatalogTypeOK ==
    /\ registered \in [Ids -> Lists]
    /\ holder \in Syncers \cup {NoOne}
    /\ unread \subseteq Ids
    /\ holder = NoOne => unread = {}
    /\ want \in [Ids -> Lists]
    /\ booted \in BOOLEAN

CatalogInit ==
    /\ Init
    /\ registered = [u \in Ids |-> None]
    /\ holder = NoOne
    /\ unread = {}
    /\ want = [u \in Ids |-> None]
    /\ booted = FALSE

\* Upstream.Tools: empty unless Ready.
Tools(u) == IF state[u] = "ready" THEN tools[u] ELSE None

\* The upstreams that are synced along with u: none where tools are found by search.
Synced(u) == IF NsOf[u] \in Native THEN {v \in Ids : NsOf[v] = NsOf[u]} ELSE {}

\* Gateway.mu is taken, for a sync of the upstreams given.
lock(g, ids) ==
    /\ holder = NoOne
    /\ holder' = g
    /\ unread' = ids
    /\ want' = registered
    /\ UNCHANGED <<vars, registered, booted>>

\* Faulty variant: the lock is given back before everything is read.
unlock_Early(g) ==
    /\ holder = g
    /\ registered' = want
    /\ holder' = NoOne
    /\ want' = [u \in Ids |-> None]
    /\ UNCHANGED unread

\* Gateway.mu is given back with everything read.
unlock(g) ==
    /\ holder = g /\ unread = {}
    /\ registered' = want
    /\ holder' = NoOne
    /\ want' = [u \in Ids |-> None]
    /\ UNCHANGED unread

Refresh(u) == owes[u] /\ lock(Loop(u), Synced(u))

RefreshFromHandler(u, s) ==
    handler[u][s].pc = "notify" /\ lock(Handler(u, s), Synced(u))

\* main, once, when Start has returned.
RefreshAll ==
    /\ ~booted
    /\ \A u \in Ids : first[u]
    /\ lock(Main, UNION {Synced(u) : u \in Ids})

\* Faulty variant: an upstream that is not Ready is passed over.
Read_SkipsNotReady(u) ==
    /\ u \in unread
    /\ want' = IF state[u] = "ready" THEN [want EXCEPT ![u] = tools[u]] ELSE want
    /\ unread' = unread \ {u}
    /\ UNCHANGED <<vars, registered, holder, booted>>

Read(u) ==
    /\ u \in unread
    /\ want' = [want EXCEPT ![u] = Tools(u)]
    /\ unread' = unread \ {u}
    /\ UNCHANGED <<vars, registered, holder, booted>>

\* The sync ends and OnChange returns to its caller.
Refreshed(u) == unlock(Loop(u)) /\ Notified(u) /\ UNCHANGED booted

RefreshedFromHandler(u, s) ==
    unlock(Handler(u, s)) /\ HandlerNotified(u, s) /\ UNCHANGED booted

RefreshedAll == unlock(Main) /\ booted' = TRUE /\ UNCHANGED vars

CatalogNext ==
    \/ Works /\ UNCHANGED mirror
    \/ \E u \in Ids : Refresh(u) \/ Read(u) \/ Refreshed(u)
    \/ \E u \in Ids, s \in Sessions : RefreshFromHandler(u, s) \/ RefreshedFromHandler(u, s)
    \/ RefreshAll
    \/ RefreshedAll

CatalogSpec == CatalogInit /\ [][CatalogNext]_allVars

-----------------------------------------------------------------------------
(* Properties *)

\* Somebody is going to sync u: its run loop (which after the cleanup of a run is
\* about to set a state) or a handler that has stored new tools.
Owed(u) ==
    \/ owes[u] \/ pc[u] = "account"
    \/ \E s \in Sessions : handler[u][s].pc = "notify"

\* What a namespace offers of an upstream is what Tools() says of it, or a sync of
\* it is still owed: no interleaving of a sync with restarts, stops and late
\* handlers loses an update.
RegisteredOwed ==
    \A u \in Ids : NsOf[u] \in Native => registered[u] = Tools(u) \/ Owed(u)

\* "Failed upstreams are reported and their tools disappear from the namespace": once
\* the loop of an upstream has ended nothing of it is offered, for good, although
\* handlers of its last sessions may still store tools and sync.
ExitedGone ==
    \A u \in Ids : pc[u] = "exit" /\ NsOf[u] \in Native => registered[u] = None
=============================================================================
