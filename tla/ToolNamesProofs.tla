---------------------------- MODULE ToolNamesProofs ----------------------------
(***************************************************************************)
(* What an accepted configuration guarantees, for all files and every      *)
(* environment, and that the names listed by the meta tools lead to the    *)
(* tools they are listed for.                                              *)
(***************************************************************************)
EXTENDS ToolNames, NamesProofs, WellFoundedInduction

\* applyDefaults has run.
Defaulted == conf.limits.timeout # 0 /\ (conf.breaker.failures > 0 => conf.breaker.cooldown # 0)

\* What validate has found, as far as it outlives pinned.
Validated ==
    /\ authValid(conf.auth) /\ Validate(conf.ui.cloudflare)
    /\ limitsValid(conf)
    /\ namespacesValid(conf)
    /\ \A s \in DOMAIN conf.servers :
        /\ conf.servers[s].limit >= 0 /\ conf.servers[s].timeout >= 0
        /\ ~Remote(conf.servers[s]) =>
            conf.servers[s].command \in Binaries /\ checked[s] = conf.servers[s].command

\* The inductive invariant.  A token can only come from its variable, which is what
\* keeps a Cloudflare configuration, that must not name one, without a token.
ConfigIInv ==
    /\ stage \in Stages \ {"crashed"}
    /\ WellFormed(conf)
    /\ stage \in {"expanded", "accepted", "serving"} => (conf.auth.token => conf.auth.tokenEnv)
    /\ stage \in {"defaulted", "expanded", "accepted", "serving"} => Defaulted
    /\ stage \in {"accepted", "serving"} => Validated

-----------------------------------------------------------------------------
(* The inductive invariant *)

\* What each function of Parse leaves well-formed.
LEMMA DefaultsKeep ==
    ASSUME NEW c, WellFormed(c)
    PROVE  WellFormed(applyDefaults(c)) /\ applyDefaults(c).servers = c.servers
<1>1. applyDefaults(c).auth \in AuthSections
    BY DEF applyDefaults, WellFormed, AuthSections
<1>2. applyDefaults(c).limits \in [timeout : Int, global : Int, namespace : Int, server : Int]
    BY DEF applyDefaults, WellFormed, Default
<1>3. applyDefaults(c).breaker \in [failures : Int, cooldown : Int]
    BY DEF applyDefaults, WellFormed, Default
<1>4. applyDefaults(c).audit \in Int
    BY DEF applyDefaults, WellFormed, Default
<1>5. /\ DOMAIN applyDefaults(c) = DOMAIN c
      /\ applyDefaults(c).publicURL = c.publicURL /\ applyDefaults(c).ui = c.ui
      /\ applyDefaults(c).namespaces = c.namespaces /\ applyDefaults(c).servers = c.servers
    BY DEF applyDefaults, WellFormed
<1> QED
    BY <1>1, <1>2, <1>3, <1>4, <1>5 DEF WellFormed

LEMMA SectionExcept ==
    ASSUME NEW srv \in ServerSections, NEW b \in BOOLEAN, NEW e \in Binaries \cup {"none", "bare"}
    PROVE  [srv EXCEPT !.secret = b] \in ServerSections /\ [srv EXCEPT !.command = e] \in ServerSections
BY DEF ServerSections

LEMMA ExpandKeeps ==
    ASSUME NEW c, WellFormed(c)
    PROVE  /\ WellFormed(expand(c))
           /\ expand(c).limits = c.limits /\ expand(c).breaker = c.breaker
           /\ DOMAIN expand(c).servers = DOMAIN c.servers
           /\ expand(c).auth.token => expand(c).auth.tokenEnv
<1>1. expand(c).auth \in AuthSections /\ (expand(c).auth.token => expand(c).auth.tokenEnv)
    BY DEF expand, WellFormed, AuthSections
<1>2. \A s \in DOMAIN expand(c).servers : s \in Seq(STRING) /\ expand(c).servers[s] \in ServerSections
    <2>1. /\ DOMAIN expand(c).servers = DOMAIN c.servers
          /\ \A s \in DOMAIN c.servers :
                expand(c).servers[s] =
                    [c.servers[s] EXCEPT !.secret = c.servers[s].secretEnv /\ env["secret"] = "set"]
        BY DEF expand, WellFormed
    <2>2. \A s \in DOMAIN c.servers : s \in Seq(STRING) /\ c.servers[s] \in ServerSections
        BY DEF WellFormed
    <2>3. ASSUME NEW s \in DOMAIN c.servers PROVE expand(c).servers[s] \in ServerSections
        <3> DEFINE b == c.servers[s].secretEnv /\ env["secret"] = "set"
        <3>1. b \in BOOLEAN
            OBVIOUS
        <3> HIDE DEF b
        <3>2. [c.servers[s] EXCEPT !.secret = b] \in ServerSections
            BY <2>2, <3>1, SectionExcept
        <3> QED
            BY <2>1, <3>2 DEF b
    <2> QED
        BY <2>1, <2>2, <2>3
<1>3. /\ DOMAIN expand(c) = DOMAIN c
      /\ expand(c).publicURL = c.publicURL /\ expand(c).ui = c.ui
      /\ expand(c).namespaces = c.namespaces /\ expand(c).audit = c.audit
      /\ expand(c).limits = c.limits /\ expand(c).breaker = c.breaker
      /\ DOMAIN expand(c).servers = DOMAIN c.servers
    BY DEF expand, WellFormed
<1> QED
    BY <1>1, <1>2, <1>3 DEF WellFormed

LEMMA PinnedKeeps ==
    ASSUME WellFormed(conf), \A s \in DOMAIN conf.servers : serverValid(s, conf.servers[s])
    PROVE  /\ WellFormed(pinned(conf))
           /\ pinned(conf).auth = conf.auth /\ pinned(conf).ui = conf.ui
           /\ pinned(conf).limits = conf.limits /\ pinned(conf).breaker = conf.breaker
           /\ pinned(conf).namespaces = conf.namespaces
           /\ DOMAIN pinned(conf).servers = DOMAIN conf.servers
           /\ \A s \in DOMAIN conf.servers :
                pinned(conf).servers[s] =
                    [conf.servers[s] EXCEPT !.command =
                        IF Remote(conf.servers[s]) THEN @ ELSE Resolved(@)]
<1>1. /\ DOMAIN pinned(conf) = DOMAIN conf
      /\ pinned(conf).publicURL = conf.publicURL /\ pinned(conf).audit = conf.audit
      /\ pinned(conf).auth = conf.auth /\ pinned(conf).ui = conf.ui
      /\ pinned(conf).limits = conf.limits /\ pinned(conf).breaker = conf.breaker
      /\ pinned(conf).namespaces = conf.namespaces
    BY DEF pinned, WellFormed
<1>2. /\ DOMAIN pinned(conf).servers = DOMAIN conf.servers
      /\ \A s \in DOMAIN conf.servers :
            pinned(conf).servers[s] =
                [conf.servers[s] EXCEPT !.command =
                    IF Remote(conf.servers[s]) THEN @ ELSE Resolved(@)]
    BY DEF pinned, WellFormed
<1>3. ASSUME NEW s \in DOMAIN conf.servers
      PROVE  s \in Seq(STRING) /\ pinned(conf).servers[s] \in ServerSections
    <2>1. ~Remote(conf.servers[s]) => Resolved(conf.servers[s].command) \in Binaries
        BY DEF serverValid, commandValid
    <2>2. s \in Seq(STRING) /\ conf.servers[s] \in ServerSections
        BY DEF WellFormed
    <2> DEFINE e == IF Remote(conf.servers[s]) THEN conf.servers[s].command
                                               ELSE Resolved(conf.servers[s].command)
    <2>3. e \in Binaries \cup {"none", "bare"}
        BY <2>1, <2>2 DEF ServerSections
    <2>4. pinned(conf).servers[s] = [conf.servers[s] EXCEPT !.command = e]
        BY <1>2
    <2> QED
        BY <2>2, <2>3, <2>4, SectionExcept
<1> QED
    BY <1>1, <1>2, <1>3 DEF WellFormed

LEMMA ConfigInitHolds == Init => ConfigIInv
BY ConfigAssumption DEF Init, ConfigInit, ConfigIInv, Stages

LEMMA AcceptHolds == ConfigIInv /\ Accept => ConfigIInv'
<1> SUFFICES ASSUME ConfigIInv, Accept PROVE ConfigIInv'
    OBVIOUS
<1>1. /\ stage = "expanded" /\ stage' = "accepted" /\ conf' = pinned(conf) /\ valid(conf)
      /\ checked' = [s \in DOMAIN conf.servers |->
            IF Remote(conf.servers[s]) THEN "none" ELSE Resolved(conf.servers[s].command)]
    BY DEF Accept
<1>2. WellFormed(conf) /\ Defaulted /\ (conf.auth.token => conf.auth.tokenEnv)
    BY <1>1 DEF ConfigIInv
<1>3. \A s \in DOMAIN conf.servers : serverValid(s, conf.servers[s])
    BY <1>1 DEF valid
<1>4. WellFormed(conf') /\ Defaulted' /\ (conf'.auth.token => conf'.auth.tokenEnv)
    BY <1>1, <1>2, <1>3, PinnedKeeps DEF Defaulted
<1>5. Validated'
    <2>1. authValid(conf'.auth) /\ Validate(conf'.ui.cloudflare) /\ limitsValid(conf')
        BY <1>1, <1>2, <1>3, PinnedKeeps DEF valid, limitsValid
    <2>2. namespacesValid(conf')
        BY <1>1, <1>2, <1>3, PinnedKeeps DEF valid, namespacesValid, namespaceValid
    <2>3. ASSUME NEW s \in DOMAIN conf'.servers
          PROVE  /\ conf'.servers[s].limit >= 0 /\ conf'.servers[s].timeout >= 0
                 /\ ~Remote(conf'.servers[s]) =>
                        conf'.servers[s].command \in Binaries /\ checked'[s] = conf'.servers[s].command
        <3> DEFINE srv == conf.servers[s]
        <3>1. /\ s \in DOMAIN conf.servers /\ srv \in ServerSections
              /\ conf'.servers[s] = [srv EXCEPT !.command = IF Remote(srv) THEN @ ELSE Resolved(@)]
            BY <1>1, <1>2, <1>3, PinnedKeeps DEF WellFormed
        <3>2. serverValid(s, srv)
            BY <1>3, <3>1
        <3>3. checked'[s] = IF Remote(srv) THEN "none" ELSE Resolved(srv.command)
            BY <1>1, <3>1
        <3> HIDE DEF srv
        <3> QED
            BY <3>1, <3>2, <3>3 DEF serverValid, commandValid, Remote, ServerSections
    <2> QED
        BY <2>1, <2>2, <2>3 DEF Validated
<1> QED
    BY <1>1, <1>4, <1>5 DEF ConfigIInv, Stages

\* The later checks find nothing to refuse.
LEMMA NothingLeft ==
    ASSUME WellFormed(conf), Validated, conf.auth.token => conf.auth.tokenEnv
    PROVE  authStarts(conf.auth) /\ (dashboard(conf) => uiStarts(conf)) /\ routed(conf)
<1>1. authStarts(conf.auth)
    BY DEF Validated, authValid, authStarts
<1>2. dashboard(conf) => uiStarts(conf)
    BY DEF Validated, dashboard, uiStarts
<1>3. routed(conf)
    BY DEF Validated, namespacesValid, namespaceValid, routed
<1> QED
    BY <1>1, <1>2, <1>3

LEMMA ConfigStepHolds == ConfigIInv /\ [Next]_vars => ConfigIInv'
<1> SUFFICES ASSUME ConfigIInv, [Next]_vars PROVE ConfigIInv'
    OBVIOUS
<1> USE DEF ConfigIInv, Stages
<1>1. CASE ApplyDefaults
    <2>1. conf' = applyDefaults(conf) /\ WellFormed(conf) /\ stage' = "defaulted"
        BY <1>1 DEF ApplyDefaults
    <2>2. WellFormed(conf')
        BY <2>1, DefaultsKeep
    <2>3. Defaulted'
        BY <2>1 DEF Defaulted, applyDefaults, Default, WellFormed
    <2> QED
        BY <2>1, <2>2, <2>3
<1>2. CASE Expand
    <2>1. conf' = expand(conf) /\ WellFormed(conf) /\ Defaulted /\ stage' \in {"refused", "expanded"}
        BY <1>2 DEF Expand
    <2>2. WellFormed(conf') /\ Defaulted' /\ (conf'.auth.token => conf'.auth.tokenEnv)
        BY <2>1, ExpandKeeps DEF Defaulted
    <2> QED
        BY <2>1, <2>2
<1>3. CASE Accept
    BY <1>3, AcceptHolds
<1>4. CASE Refuse
    BY <1>4 DEF Refuse
<1>5. CASE Construct
    <2>1. UNCHANGED <<conf, checked>> /\ stage = "accepted" /\ stage' = "serving"
        BY <1>5, NothingLeft DEF Construct
    <2> QED
        BY <2>1 DEF Defaulted, Validated
<1>6. CASE UNCHANGED <<conf, stage, env, checked>>
    BY <1>6 DEF Defaulted, Validated
<1> QED
    BY <1>1, <1>2, <1>3, <1>4, <1>5, <1>6
    DEF Next, Starts, PathChanges, OfferChanges, Sync, vars, confVars

-----------------------------------------------------------------------------
(* Theorems *)

THEOREM ConfigInvariance == Spec => []ConfigIInv
<1> QED
    BY ConfigInitHolds, ConfigStepHolds, PTL DEF Spec

\* A configuration that Parse accepts is refused by none of the constructors that
\* check it again, and no route is registered twice (AcceptedStarts).
THEOREM AcceptedFilesStart == Spec => []AcceptedStarts
<1>1. ConfigIInv => AcceptedStarts
    BY DEF ConfigIInv, AcceptedStarts
<1> QED
    BY <1>1, ConfigInvariance, PTL

\* Whatever happens to PATH, a restart runs the executable that was checked (BinaryPinned).
THEOREM BinariesPinned == Spec => []BinaryPinned
<1>1. ConfigIInv => BinaryPinned
    BY ConfigAssumption DEF ConfigIInv, BinaryPinned, Validated, Resolved
<1> QED
    BY <1>1, ConfigInvariance, PTL

\* Every limit, override and default of an accepted file is one that dispatch can
\* work with (LimitsUsable).
THEOREM LimitsAlwaysUsable == Spec => []LimitsUsable
<1>1. ASSUME ConfigIInv, stage = "serving" PROVE LimitsUsable
    <2>1. WellFormed(conf) /\ Defaulted /\ Validated
        BY <1>1 DEF ConfigIInv
    <2>2. conf.limits.global >= 0 /\ (conf.breaker.failures > 0 => conf.breaker.cooldown > 0)
        BY <2>1 DEF Defaulted, Validated, limitsValid, WellFormed
    <2>3. ASSUME NEW ns \in ToSet(conf.namespaces)
          PROVE  /\ override(ns.limit, conf.limits.namespace) >= 0
                 /\ \A s \in ServersOf(ns) :
                     /\ override(conf.servers[s].limit, conf.limits.server) >= 0
                     /\ override(conf.servers[s].timeout, conf.limits.timeout) > 0
        <3>1. namespaceValid(conf, ns)
            BY <2>1 DEF Validated, namespacesValid
        <3>2. override(ns.limit, conf.limits.namespace) >= 0
            BY <2>1, <3>1 DEF namespaceValid, Validated, limitsValid, override, WellFormed
        <3>3. ASSUME NEW s \in ServersOf(ns)
              PROVE  /\ override(conf.servers[s].limit, conf.limits.server) >= 0
                     /\ override(conf.servers[s].timeout, conf.limits.timeout) > 0
            <4>1. s \in DOMAIN conf.servers
                BY <3>1 DEF namespaceValid
            <4> QED
                BY <2>1, <4>1
                DEF Validated, Defaulted, limitsValid, override, WellFormed, ServerSections
        <3> QED
            BY <3>2, <3>3
    <2> QED
        BY <2>2, <2>3 DEF LimitsUsable
<1>2. ConfigIInv => LimitsUsable
    BY <1>1 DEF LimitsUsable
<1> QED
    BY <1>2, ConfigInvariance, PTL

\* The namespace's servers are servers of the file, and have names.
LEMMA ServersKnown ==
    ASSUME ConfigIInv, stage = "serving"
    PROVE  /\ Servers \subseteq DOMAIN conf.servers
           /\ namespace.servers \in Seq(Seq(STRING))
           /\ Servers = {namespace.servers[i] : i \in DOMAIN namespace.servers}
           /\ \A s \in Servers : s \in Seq(STRING)
<1>1. conf.namespaces \in Seq(NamespaceSections) /\ conf.namespaces # <<>> /\ Validated
    BY DEF ConfigIInv, Validated, namespacesValid, WellFormed
<1>2. namespace \in ToSet(conf.namespaces) /\ namespace \in NamespaceSections
    BY <1>1 DEF namespace, ToSet
<1>3. Servers \subseteq DOMAIN conf.servers
    BY <1>1, <1>2 DEF Validated, namespacesValid, namespaceValid, Servers
<1>4. namespace.servers \in Seq(Seq(STRING))
    BY <1>2 DEF NamespaceSections
<1>5. Servers = {namespace.servers[i] : i \in DOMAIN namespace.servers}
    BY DEF Servers, ServersOf, ToSet
<1>6. \A s \in Servers : s \in Seq(STRING)
    BY <1>3 DEF ConfigIInv, WellFormed
<1> QED
    BY <1>3, <1>4, <1>5, <1>6

\* The name of a tool cuts into that tool and its server, if the server's name does not
\* hide the separator.
LEMMA ServersCut ==
    ASSUME ConfigIInv, stage = "serving", NEW s \in Servers, Unambiguous(s), NEW t \in Tools
    PROVE  Cuts(FullName(s, t)) # {} /\ Cut(FullName(s, t)) = [server |-> s, tool |-> t]
<1>1. s \in Seq(STRING) /\ t \in Seq(STRING) /\ Unambiguous(s)
    BY ServersKnown, ToolsAssumption
<1> DEFINE Char == STRING \cup {Underscore}
<1>2. s \in Seq(Char) /\ t \in Seq(Char) /\ Underscore \in Char
    BY <1>1
<1> HIDE DEF Char
<1>3. Len(s) + 1 \in Cuts(FullName(s, t))
    BY <1>1, <1>2, FirstCut
<1> QED
    BY <1>1, <1>2, <1>3, CutOfFullName

\* Every listed name of an unambiguous server leads call_tool to the tool it is listed
\* for, and a name of such a server that is not listed leads to none (ListedIsCalled).
THEOREM ListedAreCalled == Spec => []ListedIsCalled
<1>1. ASSUME ConfigIInv, stage = "serving", NEW s \in Servers, Unambiguous(s)
      PROVE  /\ \A info \in toolInfos({s}) :
                callTool(info.name) = [server |-> s, tool |-> info.tool]
             /\ \A t \in Tools :
                FullName(s, t) \notin {info.name : info \in toolInfos(Servers)} =>
                    callTool(FullName(s, t)) = NoTool
    <2>1. ASSUME NEW info \in toolInfos({s})
          PROVE  callTool(info.name) = [server |-> s, tool |-> info.tool]
        <3>1. PICK t \in Tools : /\ offers[s][t] # 0
                                /\ info = [name |-> FullName(s, t), server |-> s, tool |-> t]
            BY <2>1 DEF toolInfos, Offered
        <3>2. Cuts(FullName(s, t)) # {} /\ Cut(FullName(s, t)) = [server |-> s, tool |-> t]
            BY <1>1, <3>1, ServersCut
        <3> QED
            BY <1>1, <3>1, <3>2 DEF callTool, found
    <2>2. ASSUME NEW t \in Tools,
                 FullName(s, t) \notin {info.name : info \in toolInfos(Servers)}
          PROVE  callTool(FullName(s, t)) = NoTool
        <3>1. Cut(FullName(s, t)) = [server |-> s, tool |-> t]
            BY <1>1, ServersCut
        <3>2. offers[s][t] = 0
            <4>1. SUFFICES ASSUME offers[s][t] # 0 PROVE FALSE
                OBVIOUS
            <4>2. [name |-> FullName(s, t), server |-> s, tool |-> t] \in toolInfos(Servers)
                BY <1>1, <4>1 DEF toolInfos, Offered
            <4> QED
                BY <4>2, <2>2
        <3> QED
            BY <3>1, <3>2 DEF callTool, found
    <2> QED
        BY <2>1, <2>2
<1>2. ConfigIInv => ListedIsCalled
    BY <1>1 DEF ListedIsCalled
<1> QED
    BY <1>2, ConfigInvariance, PTL

-----------------------------------------------------------------------------
(* What a sync leaves *)

\* The latest of some rounds is one of them.
LEMMA MaxOf ==
    ASSUME NEW n \in Nat, NEW S \in SUBSET (0..n), S # {}
    PROVE  Max(S) \in S
<1> DEFINE T == {n - x : x \in S}
<1>1. T \subseteq Nat /\ T # {}
    <2>1. ASSUME NEW x \in S PROVE n - x \in Nat
        <3>1. x \in 0..n
            OBVIOUS
        <3> QED
            BY <3>1
    <2>2. PICK x \in S : TRUE
        OBVIOUS
    <2>3. n - x \in T
        BY <2>2
    <2> QED
        BY <2>1, <2>3
<1> DEFINE R == OpToRel(<, Nat)
<1>2. IsWellFoundedOn(R, Nat)
    BY NatLessThanWellFounded
<1> HIDE DEF R, T
<1>3. PICK m \in T : \A k \in T : ~(<<k, m>> \in R)
    BY <1>1, <1>2, WFMin
<1>4. PICK x \in S : m = n - x
    BY <1>3 DEF T
<1>5. ASSUME NEW y \in S, ~(x >= y) PROVE FALSE
    <2>1. n - y \in T /\ n - y < m /\ n - y \in Nat /\ m \in Nat
        BY <1>4, <1>5 DEF T
    <2>2. <<n - y, m>> \in R
        BY <2>1 DEF R, OpToRel
    <2> QED
        BY <1>3, <2>1, <2>2
<1> QED
    BY <1>5 DEF Max

\* An entry is made of the tool that its name was made of.
LEMMA EntryOf ==
    ASSUME ConfigIInv, stage = "serving", NEW s \in Servers, NEW n \in Wanted(s)
    PROVE  \E t \in Tools : /\ n = FullName(s, t) /\ offers[s][t] # 0
                            /\ Entry(s, n) = [server |-> s, tool |-> t, rev |-> offers[s][t]]
<1>1. PICK t \in Tools : n = FullName(s, t) /\ offers[s][t] # 0
    BY DEF Wanted, Offered
<1>2. s \in Seq(STRING) /\ t \in Seq(STRING)
    BY ServersKnown, ToolsAssumption
<1> DEFINE Char == STRING \cup {Underscore}
<1>3. s \in Seq(Char) /\ t \in Seq(Char) /\ Underscore \in Char
    BY <1>2
<1> HIDE DEF Char
<1>4. SubSeq(n, Len(s) + 3, Len(n)) = t
    <2>1. After(FullName(s, t), Len(s) + 1) = t
        BY <1>3, Parts
    <2>2. Len(s) + 1 + 2 = Len(s) + 3
        BY <1>2
    <2> QED
        BY <1>1, <2>1, <2>2 DEF After
<1> QED
    BY <1>1, <1>4 DEF Entry

\* Whatever rounds are asked for, the latest is a round of a server that wants the name.
LEMMA LatestOf ==
    ASSUME ConfigIInv, stage = "serving", NEW n, NEW rounds \in SUBSET wanting(n), rounds # {}
    PROVE  \E s \in Servers : n \in Wanted(s) /\ Latest(rounds, n) = Entry(s, n)
<1> DEFINE names == namespace.servers
<1>1. Len(names) \in Nat /\ DOMAIN names = 1..Len(names)
    BY ServersKnown
<1>2. rounds \in SUBSET (0..Len(names))
    BY <1>1 DEF wanting
<1>3. Max(rounds) \in rounds
    BY <1>1, <1>2, MaxOf
<1>4. names[Max(rounds)] \in Servers /\ n \in Wanted(names[Max(rounds)])
    BY <1>3, ServersKnown DEF wanting
<1> QED
    BY <1>4 DEF Latest

\* A name that is wanted has a round that wants it.
LEMMA WantedRounds ==
    ASSUME ConfigIInv, stage = "serving", NEW n
    PROVE  n \in wanted <=> wanting(n) # {}
BY ServersKnown DEF wanted, wanting

\* The rounds that want a name only one server has make the same entry of it, and it is
\* added exactly when what is registered under it is not what is wanted.
LEMMA OneEntry ==
    ASSUME ConfigIInv, stage = "serving", NEW n \in wanted, OneOwner(n)
    PROVE  /\ n \in added <=> (n \in DOMAIN registered => registered[n] # want[n])
           /\ n \in added => Latest(adding(n), n) = want[n]
<1>1. wanting(n) # {}
    BY WantedRounds
<1>2. PICK s \in Servers : n \in Wanted(s) /\ Latest(wanting(n), n) = Entry(s, n)
    BY <1>1, LatestOf
<1>3. want[n] = Entry(s, n)
    BY <1>2 DEF want
<1>4. ASSUME NEW i \in wanting(n) PROVE namespace.servers[i] = s
    <2>1. namespace.servers[i] \in Servers /\ n \in Wanted(namespace.servers[i])
        BY ServersKnown DEF wanting
    <2>2. PICK t1 \in Tools : n = FullName(namespace.servers[i], t1)
        BY <2>1, EntryOf
    <2>3. PICK t2 \in Tools : n = FullName(s, t2)
        BY <1>2, EntryOf
    <2> QED
        BY <2>1, <2>2, <2>3 DEF OneOwner
<1>5. adding(n) = IF n \in DOMAIN registered => registered[n] # want[n] THEN wanting(n) ELSE {}
    BY <1>3, <1>4 DEF adding, changed
<1>6. n \in added <=> adding(n) # {}
    BY DEF added
<1> QED
    BY <1>1, <1>2, <1>3, <1>5, <1>6

\* After a sync the names served are those that are wanted, shared or not: a name that
\* is wanted and was not registered is added by every round that wants it.
LEMMA SyncLeavesNames ==
    ASSUME ConfigIInv, stage = "serving", DOMAIN served = DOMAIN registered
    PROVE  DOMAIN servedThen = wanted /\ DOMAIN want = wanted
<1>1. DOMAIN want = wanted /\ added \subseteq wanted
    BY DEF want, added
<1>2. ASSUME NEW n \in wanted, n \notin DOMAIN registered PROVE n \in added
    <2>1. wanting(n) # {}
        BY <1>2, WantedRounds
    <2>2. adding(n) = wanting(n)
        BY <1>2 DEF adding, changed
    <2> QED
        BY <2>1, <2>2 DEF added
<1>3. (DOMAIN served \cup added) \ stale = wanted
    BY <1>1, <1>2 DEF stale
<1> QED
    BY <1>1, <1>3 DEF servedThen

\* A name that only one server has is left as it is wanted, if it was served as it was
\* registered, and it is added only if it was not.
LEMMA SyncLeaves ==
    ASSUME ConfigIInv, stage = "serving", DOMAIN served = DOMAIN registered,
           NEW n \in wanted, OneOwner(n), n \in DOMAIN served => served[n] = registered[n]
    PROVE  /\ servedThen[n] = want[n]
           /\ n \in added /\ n \in DOMAIN served => served[n] # servedThen[n]
<1>1. n \in (DOMAIN served \cup added) \ stale
    BY SyncLeavesNames DEF servedThen
<1>2. servedThen[n] = IF n \in added THEN Latest(adding(n), n) ELSE served[n]
    BY <1>1 DEF servedThen
<1> QED
    BY <1>2, OneEntry

\* Names and entries belong together, whatever the names are.
Named(f) == \A n \in DOMAIN f : f[n] \in Entries /\ n = FullName(f[n].server, f[n].tool)

OffersTyped == offers \in [DOMAIN conf.servers -> [Tools -> Revisions \cup {0}]]

\* The inductive invariant of the catalog.
ToolsIInv ==
    /\ ConfigIInv
    /\ env \in Environments /\ path \in Binaries \cup {"none"}
    /\ OffersTyped
    /\ stage # "serving" => registered = <<>> /\ served = <<>>
    /\ stage = "serving" => Named(registered) /\ Named(served)
    /\ stage = "serving" =>
        /\ DOMAIN served = DOMAIN registered
        /\ \A n \in DOMAIN served : OneOwner(n) => served[n] = registered[n]

\* Every entry that a sync makes is one of its name.
LEMMA LatestNamed ==
    ASSUME ConfigIInv, stage = "serving", OffersTyped,
           NEW n, NEW rounds \in SUBSET wanting(n), rounds # {}
    PROVE  LET e == Latest(rounds, n) IN e \in Entries /\ n = FullName(e.server, e.tool)
<1>1. PICK s \in Servers : n \in Wanted(s) /\ Latest(rounds, n) = Entry(s, n)
    BY LatestOf
<1>2. PICK t \in Tools : /\ n = FullName(s, t) /\ offers[s][t] # 0
                        /\ Entry(s, n) = [server |-> s, tool |-> t, rev |-> offers[s][t]]
    BY <1>1, EntryOf
<1>3. offers[s][t] \in Revisions
    BY <1>2, ServersKnown DEF OffersTyped
<1> QED
    BY <1>1, <1>2, <1>3 DEF Entries

LEMMA ToolsInitHolds == Init => ToolsIInv
<1> SUFFICES ASSUME Init PROVE ToolsIInv
    OBVIOUS
<1>1. ConfigIInv
    BY ConfigInitHolds
<1>2. env \in Environments /\ path \in Binaries \cup {"none"}
    BY ConfigAssumption DEF Init, ConfigInit
<1>3. OffersTyped /\ stage = "decoded" /\ registered = <<>> /\ served = <<>>
    BY DEF Init, ConfigInit, OffersTyped
<1> QED
    BY <1>1, <1>2, <1>3 DEF ToolsIInv

LEMMA SyncHolds == ToolsIInv /\ Sync => ToolsIInv'
<1> SUFFICES ASSUME ToolsIInv, Sync PROVE ToolsIInv'
    OBVIOUS
<1>1. /\ stage = "serving" /\ UNCHANGED <<conf, stage, env, path, checked, offers>>
      /\ registered' = want /\ served' = servedThen
    BY DEF Sync, confVars
<1>2. ConfigIInv'
    BY ConfigStepHolds DEF Next, ToolsIInv
<1>3. Entries' = Entries /\ Servers' = Servers /\ (OffersTyped' <=> OffersTyped)
    BY <1>1 DEF Entries, Servers, namespace, OffersTyped
<1>4. Named(want)
    <2>1. \A n \in wanted : wanting(n) # {}
        BY <1>1, WantedRounds DEF ToolsIInv
    <2> QED
        BY <1>1, <2>1, LatestNamed DEF want, Named, ToolsIInv
<1>5. Named(servedThen)
    <2>1. ASSUME NEW n \in DOMAIN servedThen
          PROVE  servedThen[n] \in Entries /\ n = FullName(servedThen[n].server, servedThen[n].tool)
        <3>1. CASE n \in added
            <4>1. adding(n) # {} /\ adding(n) \subseteq wanting(n)
                BY <3>1 DEF added, adding
            <4>2. servedThen[n] = Latest(adding(n), n)
                BY <2>1, <3>1 DEF servedThen
            <4> QED
                BY <1>1, <4>1, <4>2, LatestNamed DEF ToolsIInv
        <3>2. CASE n \notin added
            <4>1. n \in DOMAIN served /\ servedThen[n] = served[n]
                BY <2>1, <3>2 DEF servedThen
            <4> QED
                BY <1>1, <4>1 DEF ToolsIInv, Named
        <3> QED
            BY <3>1, <3>2
    <2> QED
        BY <2>1 DEF Named
<1>6. DOMAIN servedThen = DOMAIN want
    BY <1>1, SyncLeavesNames DEF ToolsIInv
<1>7. ASSUME NEW n \in DOMAIN servedThen, OneOwner(n) PROVE servedThen[n] = want[n]
    BY <1>1, <1>7, SyncLeavesNames, SyncLeaves DEF ToolsIInv
<1>8. \A n \in DOMAIN servedThen : OneOwner(n)' => servedThen[n] = want[n]
    BY <1>3, <1>7 DEF OneOwner
<1> QED
    BY <1>1, <1>2, <1>3, <1>4, <1>5, <1>6, <1>8 DEF ToolsIInv, Named

LEMMA ToolsStepHolds == ToolsIInv /\ [Next]_vars => ToolsIInv'
<1> SUFFICES ASSUME ToolsIInv, [Next]_vars PROVE ToolsIInv'
    OBVIOUS
<1>1. ConfigIInv'
    BY ConfigStepHolds DEF ToolsIInv
<1>2. CASE Starts /\ UNCHANGED catalogVars
    <2>1. stage # "serving" /\ UNCHANGED <<env, path, offers, registered, served>>
        BY <1>2 DEF Starts, ApplyDefaults, Expand, Accept, Refuse, Construct, catalogVars
    <2>2. DOMAIN conf'.servers = DOMAIN conf.servers
        <3>1. CASE ApplyDefaults
            BY <3>1, DefaultsKeep DEF ApplyDefaults, ToolsIInv, ConfigIInv
        <3>2. CASE Expand
            BY <3>2, ExpandKeeps DEF Expand, ToolsIInv, ConfigIInv
        <3>3. CASE Accept
            BY <3>3, PinnedKeeps DEF Accept, ToolsIInv, ConfigIInv, valid
        <3>4. CASE Refuse \/ Construct
            BY <3>4 DEF Refuse, Construct
        <3> QED
            BY <1>2, <3>1, <3>2, <3>3, <3>4 DEF Starts
    <2>3. Named(registered') /\ Named(served') /\ registered' = <<>> /\ served' = <<>>
        BY <2>1 DEF ToolsIInv, Named
    <2> QED
        BY <1>1, <2>1, <2>2, <2>3 DEF ToolsIInv, OffersTyped, Named
<1>3. CASE PathChanges /\ UNCHANGED catalogVars
    BY <1>1, <1>3
    DEF PathChanges, catalogVars, ToolsIInv, OffersTyped, Named, Entries, Servers, namespace, OneOwner
<1>4. CASE OfferChanges
    <2>1. /\ stage = "serving" /\ UNCHANGED <<conf, stage, env, path, registered, served>>
          /\ \E s \in Servers, list \in [Tools -> Revisions \cup {0}] :
                offers' = [offers EXCEPT ![s] = list]
        BY <1>4 DEF OfferChanges, confVars
    <2>2. OffersTyped'
        BY <2>1 DEF ToolsIInv, OffersTyped
    <2> QED
        BY <1>1, <2>1, <2>2 DEF ToolsIInv, Named, Entries, Servers, namespace, OneOwner
<1>5. CASE Sync
    BY <1>5, SyncHolds
<1>6. CASE UNCHANGED vars
    BY <1>1, <1>6
    DEF vars, confVars, catalogVars, ToolsIInv, OffersTyped, Named, Entries, Servers, namespace, OneOwner
<1> QED
    BY <1>2, <1>3, <1>4, <1>5, <1>6 DEF Next

THEOREM ToolsInvariance == Spec => []ToolsIInv
<1> QED
    BY ToolsInitHolds, ToolsStepHolds, PTL DEF Spec

\* Every variable keeps its type, and what is registered or served under a name is a
\* tool that the name was made of, also where names are ambiguous (TypeOK).
THEOREM TypeCorrect == Spec => []TypeOK
<1>1. ASSUME ToolsIInv PROVE TypeOK
    <2>1. Named(registered) /\ Named(served)
        BY <1>1 DEF ToolsIInv, Named
    <2> QED
        BY <1>1, <2>1 DEF ToolsIInv, ConfigIInv, TypeOK, OffersTyped, Named
<1> QED
    BY <1>1, ToolsInvariance, PTL

\* Two servers can only share a name if one of them hides the separator in its own, so
\* that among other servers the conditions of the next two theorems always hold.
THEOREM UnambiguousOwnTheirs ==
    Spec => [](stage = "serving" /\ (\A s \in Servers : Unambiguous(s)) =>
                    \A s \in Servers, t \in Tools : OneOwner(FullName(s, t)))
<1>1. ASSUME ConfigIInv, stage = "serving", \A s \in Servers : Unambiguous(s),
             NEW s1 \in Servers, NEW s2 \in Servers, NEW t1 \in Tools, NEW t2 \in Tools,
             FullName(s1, t1) = FullName(s2, t2)
      PROVE  s1 = s2
    <2>1. Cut(FullName(s1, t1)).server = s1 /\ Cut(FullName(s2, t2)).server = s2
        BY <1>1, ServersCut
    <2> QED
        BY <1>1, <2>1
<1>2. ConfigIInv => (stage = "serving" /\ (\A s \in Servers : Unambiguous(s)) =>
                        \A s \in Servers, t \in Tools : OneOwner(FullName(s, t)))
    BY <1>1 DEF OneOwner
<1> QED
    BY <1>2, ConfigInvariance, PTL

\* The MCP server has the names that are registered; one that no two servers share is
\* served as registered, and the names of an unambiguous server lead call_tool to the
\* tools they are served for (ServedAsRegistered).
THEOREM ServedIsRegistered == Spec => []ServedAsRegistered
<1>1. ASSUME ToolsIInv, stage = "serving", NEW n \in DOMAIN served,
             Unambiguous(served[n].server)
      PROVE  Cut(n) = [server |-> served[n].server, tool |-> served[n].tool]
    <2>1. /\ n = FullName(served[n].server, served[n].tool)
          /\ served[n].server \in Servers /\ served[n].tool \in Tools
        BY <1>1 DEF ToolsIInv, Named, Entries
    <2> QED
        BY <1>1, <2>1, ServersCut DEF ToolsIInv
<1>2. ToolsIInv => ServedAsRegistered
    BY <1>1 DEF ToolsIInv, ServedAsRegistered
<1> QED
    BY <1>2, ToolsInvariance, PTL

\* A sync leaves the names of the tools that are offered, or in hybrid mode of the
\* pinned ones among them; one that no two servers share is left as it is offered, and
\* is added again only when it was not served so before (SyncShowsOffers).
THEOREM SyncsShowOffers == Spec => []SyncShowsOffers
<1>1. ASSUME ToolsIInv, stage = "serving"
      PROVE  /\ DOMAIN servedThen =
                {info.name : info \in {i \in toolInfos(Servers) :
                    namespace.discovery = "hybrid" => i.name \in ToSet(namespace.pins)}}
             /\ \A n \in DOMAIN servedThen : OneOwner(n) =>
                /\ servedThen[n].rev = offers[servedThen[n].server][servedThen[n].tool]
                /\ n \in added /\ n \in DOMAIN served => served[n] # servedThen[n]
    <2>1. DOMAIN servedThen = wanted /\ ConfigIInv
        BY <1>1, SyncLeavesNames DEF ToolsIInv
    <2>2. wanted = {info.name : info \in {i \in toolInfos(Servers) :
                        namespace.discovery = "hybrid" => i.name \in ToSet(namespace.pins)}}
        <3> DEFINE Pinned(n) == namespace.discovery = "hybrid" => n \in ToSet(namespace.pins)
                   Infos(s) == {[name |-> FullName(s, t), server |-> s, tool |-> t] :
                                    t \in Offered(s)}
        <3>1. ASSUME NEW n \in wanted
              PROVE  \E i \in toolInfos(Servers) : Pinned(i.name) /\ i.name = n
            <4>1. PICK s \in Servers : n \in Wanted(s)
                BY <3>1 DEF wanted
            <4>2. PICK t \in Offered(s) : n = FullName(s, t) /\ Pinned(n)
                BY <4>1 DEF Wanted
            <4>3. [name |-> FullName(s, t), server |-> s, tool |-> t] \in toolInfos(Servers)
                BY <4>2 DEF toolInfos
            <4> QED
                BY <4>2, <4>3
        <3>2. ASSUME NEW i \in toolInfos(Servers), Pinned(i.name)
              PROVE  i.name \in wanted
            <4>1. PICK s \in Servers : i \in Infos(s)
                BY <3>2 DEF toolInfos
            <4>2. PICK t \in Offered(s) : i.name = FullName(s, t)
                BY <4>1
            <4>3. i.name \in Wanted(s)
                BY <3>2, <4>2 DEF Wanted
            <4> QED
                BY <4>1, <4>3 DEF wanted
        <3> QED
            BY <3>1, <3>2
    <2>3. ASSUME NEW n \in wanted
          PROVE  want[n].rev = offers[want[n].server][want[n].tool]
        <3>1. wanting(n) # {}
            BY <1>1, <2>1, WantedRounds
        <3>2. PICK s \in Servers : n \in Wanted(s) /\ want[n] = Entry(s, n)
            BY <1>1, <2>1, <3>1, LatestOf DEF want
        <3>3. PICK t \in Tools : Entry(s, n) = [server |-> s, tool |-> t, rev |-> offers[s][t]]
            BY <1>1, <2>1, <3>2, EntryOf
        <3> QED
            BY <3>2, <3>3
    <2>4. ASSUME NEW n \in wanted, OneOwner(n)
          PROVE  /\ servedThen[n] = want[n]
                 /\ n \in added /\ n \in DOMAIN served => served[n] # servedThen[n]
        BY <1>1, <2>4, SyncLeaves DEF ToolsIInv
    <2> QED
        BY <2>1, <2>2, <2>3, <2>4
<1>2. ToolsIInv => SyncShowsOffers
    BY <1>1 DEF SyncShowsOffers
<1> QED
    BY <1>2, ToolsInvariance, PTL
=============================================================================
