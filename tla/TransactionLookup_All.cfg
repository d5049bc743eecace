\* One request of each kind, concurrent with the indexer and the node.
SPECIFICATION Spec
CONSTANTS
    b1 = b1
    b2 = b2
    b3 = b3
    x1 = x1
    x2 = x2
    Block = {b1, b2, b3}
    Tx = {x1, x2}
    HasInputs = {x1}
    Score <- MCScore
    Content <- MCContent
    Starts <- AllStarts
    Day = 1
    ChainLimit = 2
    MaxChanges = 2
INVARIANTS
    BlockNotFoundIsTrue
    ListIsNearest
    ListHasNodeBlocks
    AcceptancesHeldTogether
    NothingOverlooked
    RowsAreEnough
CHECK_DEADLOCK FALSE
