\* Calls that outlast the drain.
CONSTANTS
    c1 = c1  c2 = c2  c3 = c3
    Calls = {c1, c2}
    BufferSize = 2
    Recent = 1
    Page = 1
SPECIFICATION TailSpec
INVARIANTS NoObserveAfterClose
CHECK_DEADLOCK FALSE
