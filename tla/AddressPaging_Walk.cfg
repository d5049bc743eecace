\* Walks in either direction, concurrent with the indexer.
SPECIFICATION FairSpec
CONSTANTS
    Tx = {1, 2, 3}
    Time <- MCTime
    Limit = 2
    IdLimit = 3
    Genesis = 1
    Horizon = 5
    Modes = {"any", "accepted", "rejected"}
    Fields = {"all", "no_block_time"}
    Cursors = {0, 1, 5, 6}
INVARIANTS
    WalkIsExact
    PageIsContiguous
PROPERTIES
    WalkEnds
CHECK_DEADLOCK FALSE
