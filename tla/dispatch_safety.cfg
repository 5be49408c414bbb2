\* Three requests; n1 and u2 have one slot by overrides, the gateway two, the rest
\* default; breakers that open at the second failure.
CONSTANTS
    c1 = c1  c2 = c2  c3 = c3  n1 = n1  n2 = n2  u1 = u1  u2 = u2
    Global = Global
    Calls = {c1, c2, c3}
    Namespaces = {n1, n2}
    Upstreams = {u1, u2}
    NsOf <- TwoNamespaces
    MaxConcurrent = 2
    PerNamespace = 0
    PerServer = 2
    NamespaceConcurrency <- N1Override
    ServerConcurrency <- U2Override
    Failures = 2
    CallTimeout = 60
    ServerTimeout <- NoServerOverride
    OAuth = {}
    Answers = {"ok", "transport", "notReady"}
SYMMETRY CallSymmetry
SPECIFICATION Spec
INVARIANTS TypeOK SlotAccounting InFlightBounded BreakerConsistent
PROPERTIES OnlyUpstreamCounts
