\* Two slots for a namespace that takes one call at a time, so that requests hold one
\* slot and wait for another; u2 has a deadline by an override and may block, u1 has neither.
CONSTANTS
    c1 = c1  c2 = c2  c3 = c3  n1 = n1  n2 = n2  u1 = u1  u2 = u2
    Global = Global
    Calls = {c1, c2, c3}
    Namespaces = {n1}
    Upstreams = {u1, u2}
    NsOf <- OneNamespace
    MaxConcurrent = 2
    PerNamespace = 0
    PerServer = 2
    NamespaceConcurrency <- N1Override
    ServerConcurrency <- U2Override
    Failures = 0
    CallTimeout = 0
    ServerTimeout <- U2Override
    OAuth = {u2}
    Answers = {"ok"}
SPECIFICATION FairSpec
INVARIANTS NoCircularWait
PROPERTIES CallsFinish KeepsPromise
