\* One login of this process, revoked afterwards.
CONSTANTS
    c1 = c1
    Calls = {c1}
    Stored = 0
    MaxLogins = 1
    MaxRestarts = 0
SPECIFICATION FairSpec
PROPERTIES RevocationNoticed
CHECK_DEADLOCK FALSE
