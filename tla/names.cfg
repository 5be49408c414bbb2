\* Files that differ from a plain one in one section; two tool names, one with the
\* separator's character in front.
CONSTANTS
    Files <- AllFiles
    Binaries = {"old", "new"}
    Tools <- SmallTools
    Revisions = {1, 2}
SPECIFICATION Spec
INVARIANTS TypeOK  BinaryPinned LimitsUsable ListedIsCalled ServedAsRegistered SyncShowsOffers
CHECK_DEADLOCK FALSE
