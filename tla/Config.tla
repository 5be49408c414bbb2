-------------------------------- MODULE Config --------------------------------
(***************************************************************************)
(* The configuration: what Parse makes of a file that decodes (defaults,   *)
(* expansion of environment variables, validation), and the checks of      *)
(* later stages that must find nothing left to refuse: auth.New, the       *)
(* routes of newMux and ui.New.                                            *)
(*                                                                         *)
(* Texts that are only set or not are Booleans, an executable is known by  *)
(* its path, and numbers are small integers, negative ones included.       *)
(***************************************************************************)
EXTENDS Names, FiniteSets, SequencesExt

CONSTANTS
    Files,      \* files that decode (unknown fields do not), with an environment each
    Binaries    \* absolute paths of executables

Accesses == {"none", "noDomain", "badDomain", "valid"}
AuthSections ==
    [issuer : BOOLEAN, audience : BOOLEAN, scope : BOOLEAN,
     scopes : SUBSET {"scope", "offline_access"}, tokenEnv : BOOLEAN, token : BOOLEAN,
     cloudflare : Accesses]
ServerSections ==
    [command : Binaries \cup {"none", "bare"}, url : {"none", "http", "other"}, headers : BOOLEAN,
     ref : BOOLEAN, oauth : BOOLEAN, clientID : BOOLEAN, secretEnv : BOOLEAN, secret : BOOLEAN,
     limit : Int, timeout : Int]
NamespaceSections ==
    [name : Seq(STRING), servers : Seq(Seq(STRING)), limit : Int, discovery : STRING,
     pins : Seq(Seq(STRING))]

\* The type Config: what a file may say, and what its sections are called.
WellFormed(c) ==
    /\ DOMAIN c = {"publicURL", "auth", "ui", "limits", "breaker", "audit", "namespaces", "servers"}
    /\ c.publicURL \in BOOLEAN /\ c.audit \in Int
    /\ c.auth \in AuthSections
    /\ c.ui \in [enabled : BOOLEAN, cloudflare : Accesses]
    /\ c.limits \in [timeout : Int, global : Int, namespace : Int, server : Int]
    /\ c.breaker \in [failures : Int, cooldown : Int]
    /\ c.namespaces \in Seq(NamespaceSections)
    /\ \A s \in DOMAIN c.servers : s \in Seq(STRING) /\ c.servers[s] \in ServerSections

Environments == [{"token", "secret", "ref"} -> {"unset", "empty", "set"}]

ASSUME ConfigAssumption ==
    /\ "none" \notin Binaries /\ "bare" \notin Binaries
    /\ \A file \in Files : WellFormed(file.conf) /\ file.env \in Environments

VARIABLES
    conf,       \* the Config
    stage,      \* how far the start is
    env,        \* environment variables: "unset", "empty" or "set"
    path,       \* the executable PATH finds under a bare name, or "none"
    checked     \* history: the executable that validate found for each server

confVars == <<conf, stage, env, path, checked>>

Stages == {"decoded", "defaulted", "expanded", "accepted", "refused", "serving", "crashed"}

\* CloudflareAccess: its team_domain, and Validate.
Domain(access) == access \in {"badDomain", "valid"}
Validate(access) == access \in {"none", "valid"}

Remote(srv) == srv.url # "none"
ServersOf(ns) == ToSet(ns.servers)

-----------------------------------------------------------------------------
(* applyDefaults *)

Default(v, default) == IF v = 0 THEN default ELSE v

\* Faulty variant: only an absent breaker gets a cooldown.
applyDefaults_Cooldown(c) ==
    [c EXCEPT
        !.limits.timeout = Default(@, 60),
        !.breaker.cooldown = IF c.breaker.failures = 0 THEN Default(@, 30) ELSE @]

applyDefaults(c) ==
    [c EXCEPT
        !.auth.scopes = IF @ # {} THEN @
                        ELSE (IF c.auth.scope THEN {"scope"} ELSE {})
                             \cup (IF c.auth.issuer THEN {"offline_access"} ELSE {}),
        !.audit = Default(@, 90),
        !.limits.timeout = Default(@, 60),
        !.breaker.cooldown = IF c.breaker.failures > 0 THEN Default(@, 30) ELSE @]

-----------------------------------------------------------------------------
(* expand *)

\* References to variables that must be set, if only to nothing.
Missing(c) ==
    \E s \in DOMAIN c.servers :
        \/ c.servers[s].ref /\ env["ref"] = "unset"
        \/ c.servers[s].secretEnv /\ env["secret"] = "unset"

expand(c) ==
    [c EXCEPT
        !.servers = [s \in DOMAIN c.servers |->
            [c.servers[s] EXCEPT !.secret = c.servers[s].secretEnv /\ env["secret"] = "set"]],
        !.auth.token = c.auth.tokenEnv /\ env["token"] = "set"]

-----------------------------------------------------------------------------
(* validate *)

\* Faulty variant: a token variable that is empty counts as a way to sign in.
authValid_EmptyToken(a) ==
    /\ a.issuer \/ a.tokenEnv \/ Domain(a.cloudflare)
    /\ Validate(a.cloudflare)

authValid(a) ==
    /\ a.issuer \/ a.tokenEnv \/ Domain(a.cloudflare)
    /\ a.tokenEnv => a.token
    /\ Validate(a.cloudflare)
    /\ Domain(a.cloudflare) =>
        ~(a.issuer \/ a.audience \/ a.scope \/ a.tokenEnv) /\ a.scopes = {}

limitsValid(c) ==
    /\ \A f \in {"timeout", "global", "namespace", "server"} : c.limits[f] >= 0
    /\ c.breaker.failures >= 0 /\ c.breaker.cooldown >= 0

\* A pin is server__tool, with a server of the namespace.
pinValid(ns, pin) ==
    Cuts(pin) # {} /\ Cut(pin).tool # <<>> /\ Cut(pin).server \in ServersOf(ns)

namespaceValid(c, ns) ==
    /\ nameRule(ns.name)
    /\ ns.limit >= 0
    /\ ns.discovery \in {"", "full", "connector", "search", "hybrid"}
    /\ ns.pins # <<>> => ns.discovery = "hybrid"
    /\ \A pin \in ToSet(ns.pins) : pinValid(ns, pin)
    /\ IsInjective(ns.pins)
    /\ ns.servers # <<>>
    /\ ServersOf(ns) \subseteq DOMAIN c.servers

\* exec.LookPath and checkExecutable: what a command is found as.
Resolved(command) == IF command = "bare" THEN path ELSE command

remoteValid(srv) ==
    /\ srv.command = "none" /\ srv.url = "http"
    /\ ~srv.oauth => ~srv.clientID /\ ~srv.secretEnv
    /\ srv.secretEnv => srv.clientID

commandValid(srv) ==
    /\ ~srv.oauth /\ ~srv.headers
    /\ Resolved(srv.command) \in Binaries

serverValid(name, srv) ==
    /\ nameRule(name)
    /\ srv.limit >= 0 /\ srv.timeout >= 0
    /\ IF Remote(srv) THEN remoteValid(srv) ELSE commandValid(srv)

namespacesValid(c) ==
    /\ c.namespaces # <<>>
    /\ IsInjective([i \in DOMAIN c.namespaces |-> c.namespaces[i].name])
    /\ \A ns \in ToSet(c.namespaces) : namespaceValid(c, ns)

valid(c) ==
    /\ c.publicURL
    /\ authValid(c.auth) /\ Validate(c.ui.cloudflare)
    /\ limitsValid(c)
    /\ namespacesValid(c)
    /\ \A s \in DOMAIN c.servers : serverValid(s, c.servers[s])

\* Faulty variant: the copy of the loop is changed and not stored.
pinned_Copy(c) == c

\* A bare command is replaced by what it was found as.
pinned(c) ==
    [c EXCEPT !.servers = [s \in DOMAIN c.servers |->
        [c.servers[s] EXCEPT !.command = IF Remote(c.servers[s]) THEN @ ELSE Resolved(@)]]]

-----------------------------------------------------------------------------
(* Later checks of the same values *)

\* auth.New: one mode, and a way to authenticate.
authStarts(a) ==
    IF Domain(a.cloudflare)
    THEN Validate(a.cloudflare) /\ ~(a.issuer \/ a.token \/ a.audience \/ a.scope) /\ a.scopes = {}
    ELSE a.issuer \/ a.token

\* main has a dashboard unless it is off or nobody could sign in.
dashboard(c) == c.ui.enabled /\ (c.auth.token \/ Domain(c.ui.cloudflare))

\* ui.New: a way to sign in.
uiStarts(c) == Validate(c.ui.cloudflare) /\ (c.auth.token \/ Domain(c.ui.cloudflare))

\* ServeMux panics when a pattern is registered twice, and a namespace needs its upstreams.
routed(c) ==
    /\ IsInjective([i \in DOMAIN c.namespaces |-> c.namespaces[i].name])
    /\ \A ns \in ToSet(c.namespaces) : ServersOf(ns) \subseteq DOMAIN c.servers

-----------------------------------------------------------------------------
(* The start *)

ConfigInit ==
    /\ \E file \in Files : conf = file.conf /\ env = file.env
    /\ stage = "decoded"
    /\ path \in Binaries \cup {"none"}
    /\ checked = [s \in DOMAIN conf.servers |-> "none"]

ApplyDefaults ==
    /\ stage = "decoded"
    /\ conf' = applyDefaults(conf)
    /\ stage' = "defaulted"
    /\ UNCHANGED <<env, path, checked>>

Expand ==
    /\ stage = "defaulted"
    /\ conf' = expand(conf)
    /\ stage' = IF Missing(conf) THEN "refused" ELSE "expanded"
    /\ UNCHANGED <<env, path, checked>>

Accept ==
    /\ stage = "expanded" /\ valid(conf)
    /\ conf' = pinned(conf)
    /\ checked' = [s \in DOMAIN conf.servers |->
                    IF Remote(conf.servers[s]) THEN "none" ELSE Resolved(conf.servers[s].command)]
    /\ stage' = "accepted"
    /\ UNCHANGED <<env, path>>

Refuse ==
    /\ stage = "expanded" /\ ~valid(conf)
    /\ stage' = "refused"
    /\ UNCHANGED <<conf, env, path, checked>>

\* main constructs the other components from it.
Construct ==
    /\ stage = "accepted"
    /\ stage' = IF authStarts(conf.auth) /\ (dashboard(conf) => uiStarts(conf)) /\ routed(conf)
                THEN "serving" ELSE "crashed"
    /\ UNCHANGED <<conf, env, path, checked>>

\* Somebody installs another executable under the same bare name.
PathChanges ==
    /\ path' \in Binaries \cup {"none"}
    /\ UNCHANGED <<conf, stage, env, checked>>

Starts == ApplyDefaults \/ Expand \/ Accept \/ Refuse \/ Construct

-----------------------------------------------------------------------------
(* Properties *)

\* A configuration that Parse accepts is not refused later: auth.New and ui.New find
\* what they ask for, and no route is registered twice, which would panic.
AcceptedStarts == stage # "crashed"

\* "resolved through PATH once here and pinned, so a later PATH change cannot
\* silently swap the binary": every start of a child runs what validate has checked.
BinaryPinned ==
    stage = "serving" =>
        \A s \in DOMAIN conf.servers :
            ~Remote(conf.servers[s]) =>
                /\ Resolved(conf.servers[s].command) = checked[s]
                /\ checked[s] \in Binaries

\* Limits.namespaceLimit, serverLimit and timeout.
override(v, default) == IF v > 0 THEN v ELSE default

\* What Dispatch assumes of its constants holds of every accepted file: no limit
\* is negative, a breaker that opens has a cooldown, and no call is without a deadline.
LimitsUsable ==
    stage = "serving" =>
        /\ conf.limits.global >= 0
        /\ conf.breaker.failures > 0 => conf.breaker.cooldown > 0
        /\ \A ns \in ToSet(conf.namespaces) :
            /\ override(ns.limit, conf.limits.namespace) >= 0
            /\ \A s \in ServersOf(ns) :
                /\ override(conf.servers[s].limit, conf.limits.server) >= 0
                /\ override(conf.servers[s].timeout, conf.limits.timeout) > 0
=============================================================================
