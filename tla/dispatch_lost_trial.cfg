\* One slot for two requests, so that a trial call can time out in the queue.
CONSTANTS
    c1 = c1  c2 = c2  c3 = c3  n1 = n1  n2 = n2  u1 = u1  u2 = u2
    Global = Global
    Calls = {c1, c2}
    Namespaces = {n1}
    Upstreams = {u1}
    NsOf <- OneUpstream
    MaxConcurrent = 1
    PerNamespace = 0
    PerServer = 0
    NamespaceConcurrency <- NoNamespaceOverride
    ServerConcurrency <- NoServerOverride
    Failures = 1
    CallTimeout = 60
    ServerTimeout <- NoServerOverride
    OAuth = {}
    Answers = {"ok", "transport"}
SPECIFICATION FairSpec
PROPERTIES TrialEnds
