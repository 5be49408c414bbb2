\* A child process or a remote upstream with a login that comes and goes, the other
\* one given up on; Stop at any point.
CONSTANTS
    a = a  b = b  s1 = s1  s2 = s2  v1 = v1  v2 = v2
    Ids = {a, b}
    Stdio = {a}
    OAuth = {b}
    NoPing = {}
    MaxFailures = 2
    Sessions = {s1}
    Versions = {v1}
    ListMayFail = TRUE
    SlowStart = {"wait"}
SPECIFICATION OneLoopSpec
PROPERTIES StopEnds CrashLoopEnds StartReturns
CHECK_DEADLOCK FALSE
