\* Credentials loaded from the store, one more login, one restart; a ping or a call next
\* to the request that connects.
CONSTANTS
    c1 = c1
    Calls = {c1}
    Stored = 1
    MaxLogins = 2
    MaxRestarts = 1
SPECIFICATION FairSpec
INVARIANTS TypeOK ReadyTellsHandler NoLostWakeup
PROPERTIES LoadedRevocationNoticed KeepsGate
CHECK_DEADLOCK FALSE
