----------------------------- MODULE MCToolNames -----------------------------
(* Files that differ from a plain one in one section at a time. *)
EXTENDS ToolNames

a == <<"a">>
a_ == <<"a", "_">>
a_a == <<"a", "_", "a">>
a__a == <<"a", "_", "_", "a">>
Leading == <<"_", "a">>
t == <<"b">>
_t == <<"_", "b">>

SmallTools == {t, _t}

Plain == [command |-> "old", url |-> "none", headers |-> FALSE, ref |-> FALSE, oauth |-> FALSE,
          clientID |-> FALSE, secretEnv |-> FALSE, secret |-> FALSE, limit |-> 0, timeout |-> 0]
One == [name |-> a, servers |-> <<a>>, limit |-> 0, discovery |-> "search", pins |-> <<>>]
Basic == [publicURL |-> TRUE,
          auth |-> [issuer |-> FALSE, audience |-> FALSE, scope |-> FALSE, scopes |-> {},
                    tokenEnv |-> TRUE, token |-> FALSE, cloudflare |-> "none"],
          ui |-> [enabled |-> TRUE, cloudflare |-> "none"],
          limits |-> [timeout |-> 0, global |-> 0, namespace |-> 0, server |-> 0],
          breaker |-> [failures |-> 0, cooldown |-> 0],
          audit |-> 0,
          namespaces |-> <<One>>,
          servers |-> [s \in {a, a_, a_a, a__a} |-> Plain]]

AllSet == [v \in {"token", "secret", "ref"} |-> "set"]

\* Files with every value of the variables given.
With(confs, variables) ==
    [conf : confs,
     env : {[AllSet EXCEPT ![v] = x] : v \in variables, x \in {"unset", "empty", "set"}} \cup {AllSet}]

AuthFiles ==
    {[Basic EXCEPT !.auth = x, !.ui.cloudflare = y] :
        x \in [issuer : BOOLEAN, audience : {FALSE}, scope : BOOLEAN, scopes : {{}, {"scope"}},
               tokenEnv : BOOLEAN, token : {FALSE}, cloudflare : Accesses],
        y \in {"none", "badDomain", "valid"}}

LimitFiles ==
    {[Basic EXCEPT !.limits = x, !.breaker = y] :
        x \in [timeout : -1..1, global : {0, 1}, namespace : {0}, server : -1..0],
        y \in [failures : -1..1, cooldown : -1..1]}

ServerFiles ==
    {[Basic EXCEPT !.servers[a] = x] :
        x \in [command : {"none", "bare", "old"}, url : {"none", "http", "other"},
               headers : {FALSE}, ref : BOOLEAN, oauth : BOOLEAN, clientID : BOOLEAN,
               secretEnv : BOOLEAN, secret : {FALSE}, limit : {0, -1}, timeout : {0, 1}]}

\* Server names with the separator's character, where it does no harm and where it does.
NamespaceFiles ==
    {[Basic EXCEPT !.namespaces = <<x>>] :
        x \in [name : {a}, servers : {<<>>, <<a>>, <<a, a_a>>, <<Leading>>},
               limit : {0}, discovery : {"", "connector", "hybrid", "other"},
               pins : {<<>>, <<FullName(a, t)>>, <<FullName(a, _t), FullName(a_a, t)>>,
                       <<FullName(a, t), FullName(a, t)>>}]}
    \cup {[Basic EXCEPT !.namespaces = <<x>>] :
        x \in [name : {a}, servers : {<<a, a_>>, <<a, a__a>>, <<a_, a_>>}, limit : {0},
               discovery : {""}, pins : {<<>>}]}
    \cup {[Basic EXCEPT !.namespaces = <<One, [One EXCEPT !.name = x]>>] : x \in {a, a_}}

AllFiles ==
    With(AuthFiles, {"token"}) \cup With(ServerFiles, {"secret", "ref"})
    \cup With(LimitFiles \cup NamespaceFiles, {})
=============================================================================
