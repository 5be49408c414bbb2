\* A child process whose tools change, with the handlers of two sessions.
CONSTANTS
    a = a  b = b  s1 = s1  s2 = s2  v1 = v1  v2 = v2  n = n
    Ids = {a}
    Stdio = {a}
    OAuth = {}
    NoPing = {}
    MaxFailures = 2
    Sessions = {s1, s2}
    Versions = {v1, v2}
    ListMayFail = TRUE
    SlowStart = {}
    Namespaces = {n}
    NsOf <- Shared
    Native = {n}
SYMMETRY Symmetry
SPECIFICATION CatalogSpec
INVARIANTS TypeOK NoStrayProcess CatalogTypeOK RegisteredOwed ExitedGone
PROPERTIES KeepsLifecycle
CHECK_DEADLOCK FALSE
