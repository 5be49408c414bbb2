------------------------------ MODULE ToolNames ------------------------------
(***************************************************************************)
(* The tools of a namespace by name, in each discovery mode: syncLocked    *)
(* with what it adds to and removes from the MCP server, the lists of the  *)
(* meta tools (toolInfos) and metaCall, which takes a name apart again.    *)
(* The namespace is the first of a configuration that was accepted; each   *)
(* namespace has state of its own.                                         *)
(*                                                                         *)
(* A sync is one step here: Catalog has what happens while it reads.       *)
(***************************************************************************)
EXTENDS Config

CONSTANTS
    Tools,      \* names of upstream tools
    Revisions   \* what a tool may say of itself (title, description, schema)

ASSUME ToolsAssumption == 0 \notin Revisions /\ Tools \subseteq Seq(STRING)

VARIABLES
    offers,     \* Upstream.Tools(): the revision of each tool of each server, 0 if absent
    registered, \* nsServer.registered: what each name was registered with
    served      \* the tools of the mcp.Server, with the upstream tool each calls

catalogVars == <<offers, registered, served>>
vars == <<confVars, catalogVars>>

namespace == conf.namespaces[1]
Servers == ServersOf(namespace)
Native == namespace.discovery \in {"", "full", "hybrid"}

\* What is registered under a name; its JSON tells servers apart by the title.
Entries == [server : Servers, tool : Tools, rev : Revisions]

Init ==
    /\ ConfigInit
    /\ offers = [s \in DOMAIN conf.servers |-> [t \in Tools |-> 0]]
    /\ registered = <<>> /\ served = <<>>

-----------------------------------------------------------------------------
(* syncLocked *)

Offered(s) == {t \in Tools : offers[s][t] # 0}

\* Faulty variant: pins are looked up by the name the upstream uses.
Wanted_ByTool(s) ==
    {FullName(s, t) : t \in {t \in Offered(s) :
        namespace.discovery = "hybrid" => t \in ToSet(namespace.pins)}}

\* The names that the tools of a server get; in hybrid mode only pinned ones count.
Wanted(s) ==
    {n \in {FullName(s, t) : t \in Offered(s)} :
        namespace.discovery = "hybrid" => n \in ToSet(namespace.pins)}

\* Faulty variant: the separator stays on the tool's name.
Entry_Untrimmed(s, n) ==
    [server |-> s, tool |-> SubSeq(n, Len(s) + 1, Len(n)), rev |-> 0]

Entry(s, n) ==
    LET t == SubSeq(n, Len(s) + 3, Len(n)) IN [server |-> s, tool |-> t, rev |-> offers[s][t]]

\* Faulty variant: every tool is added again by every sync.
changed_Always(n, entry) == TRUE

changed(n, entry) == n \in DOMAIN registered => registered[n] # entry

\* The rounds of the loop over servers that want a name, and those that add it: a
\* tool that is registered as it is now is not added again.
wanting(n) == {i \in DOMAIN namespace.servers : n \in Wanted(namespace.servers[i])}
adding(n) == {i \in wanting(n) : changed(n, Entry(namespace.servers[i], n))}

\* A later round replaces what an earlier one has put under the same name.
Latest(rounds, n) == Entry(namespace.servers[Max(rounds)], n)

wanted == UNION {Wanted(s) : s \in Servers}
want == [n \in wanted |-> Latest(wanting(n), n)]
added == {n \in wanted : adding(n) # {}}

\* Faulty variant: RemoveTools is forgotten.
stale_None == {}

stale == DOMAIN registered \ DOMAIN want

\* The tools of the mcp.Server when a sync ends: AddTool replaces, RemoveTools comes last.
servedThen ==
    [n \in (DOMAIN served \cup added) \ stale |->
        IF n \in added THEN Latest(adding(n), n) ELSE served[n]]

Sync ==
    /\ stage = "serving" /\ Native
    /\ registered' = want
    /\ served' = servedThen
    /\ UNCHANGED <<confVars, offers>>

\* An upstream becomes Ready, changes its tools, or is no longer Ready.
OfferChanges ==
    /\ stage = "serving"
    /\ \E s \in Servers, list \in [Tools -> Revisions \cup {0}] :
        offers' = [offers EXCEPT ![s] = list]
    /\ UNCHANGED <<confVars, registered, served>>

Next ==
    \/ Starts /\ UNCHANGED catalogVars
    \/ PathChanges /\ UNCHANGED catalogVars
    \/ OfferChanges
    \/ Sync

Spec == Init /\ [][Next]_vars

-----------------------------------------------------------------------------
(* The meta tools *)

\* toolInfos, which search_tools and describe_tools read; a server may be given.
toolInfos(servers) ==
    UNION {{[name |-> FullName(s, t), server |-> s, tool |-> t] : t \in Offered(s)} :
                s \in servers \cap Servers}

NoTool == [server |-> <<>>, tool |-> <<>>]

found(c) == c.server \in Servers /\ c.tool \in Tools /\ offers[c.server][c.tool] # 0

\* call_tool (metaCall): the upstream tool that a name leads to.
callTool(name) ==
    IF Cuts(name) # {} /\ found(Cut(name)) THEN Cut(name) ELSE NoTool

-----------------------------------------------------------------------------
(* Properties *)

\* The types of the file and of a catalog; an entry stands under its own name.
TypeOK ==
    /\ stage \in Stages /\ WellFormed(conf)
    /\ env \in Environments
    /\ path \in Binaries \cup {"none"}
    /\ offers \in [DOMAIN conf.servers -> [Tools -> Revisions \cup {0}]]
    /\ \A f \in {registered, served} : \A n \in DOMAIN f :
        f[n] \in Entries /\ n = FullName(f[n].server, f[n].tool)

\* No name of another server is spelled like this one.  nameRule does not say so: it
\* admits "_" at the end of a server's name, and "__" in it, so that with the servers
\* a and a_ the tools _b and b share a name.
OneOwner(n) ==
    \A s1, s2 \in Servers, t1, t2 \in Tools :
        FullName(s1, t1) = n /\ FullName(s2, t2) = n => s1 = s2

\* "call_tool executes a tool by its server__tool name": for a server in whose name the
\* separator cannot be mistaken, every name that search_tools and describe_tools list
\* leads to the tool it is listed for, and one that is not listed leads to none.
ListedIsCalled ==
    stage = "serving" =>
        \A s \in Servers : Unambiguous(s) =>
            /\ \A info \in toolInfos({s}) :
                callTool(info.name) = [server |-> s, tool |-> info.tool]
            /\ \A t \in Tools :
                FullName(s, t) \notin {info.name : info \in toolInfos(Servers)} =>
                    callTool(FullName(s, t)) = NoTool

\* The MCP server has the names that nsServer.registered remembers.  One that no two
\* servers share calls the upstream tool it was registered for, as it was registered,
\* and call_tool takes the names of an unambiguous server the same way.
ServedAsRegistered ==
    stage = "serving" =>
        /\ DOMAIN served = DOMAIN registered
        /\ \A n \in DOMAIN served :
            /\ OneOwner(n) => served[n] = registered[n]
            /\ Unambiguous(served[n].server) =>
                Cut(n) = [server |-> served[n].server, tool |-> served[n].tool]

\* "A missing or unavailable pin is not advertised, and appears when the upstream
\* reports it": whatever was registered before, a sync leaves exactly the names that
\* the mode promises.  One that no two servers share is left as it is offered now, and
\* is added again only when it was not served so before ("unchanged tools are not
\* re-added, which would spam list_changed notifications").
SyncShowsOffers ==
    stage = "serving" /\ Native =>
        /\ DOMAIN servedThen =
            {info.name : info \in {i \in toolInfos(Servers) :
                namespace.discovery = "hybrid" => i.name \in ToSet(namespace.pins)}}
        /\ \A n \in DOMAIN servedThen : OneOwner(n) =>
            /\ servedThen[n].rev = offers[servedThen[n].server][servedThen[n].tool]
            /\ n \in added /\ n \in DOMAIN served => served[n] # servedThen[n]
=============================================================================
