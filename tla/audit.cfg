\* Three calls and a buffer of one row; the signal, a listen error, retention and a tail
\* that begins at any point.
CONSTANTS
    c1 = c1  c2 = c2  c3 = c3
    Calls = {c1, c2, c3}
    BufferSize = 1
    Recent = 2
    Page = 1
SPECIFICATION FairTailSpec
INVARIANTS TypeOK FlushedAtExit TailTypeOK ShownOnce ShownInOrder NoneLeftOut
PROPERTIES KeepsQueue ShutdownEnds NeverBlocks
CHECK_DEADLOCK FALSE
