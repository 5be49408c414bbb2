\* A server whose tools change while its first list is read; it always answers.
CONSTANTS
    a = a  b = b  s1 = s1  s2 = s2  v1 = v1  v2 = v2
    Ids = {a}
    Stdio = {a}
    OAuth = {}
    NoPing = {}
    MaxFailures = 2
    Sessions = {s1, s2}
    Versions = {v1, v2}
    ListMayFail = FALSE
    SlowStart = {"wait", "list"}
SPECIFICATION Spec
INVARIANTS CacheFresh
CHECK_DEADLOCK FALSE
