\* The client follows X-Next-Page-After.
SPECIFICATION Spec
CONSTANTS
    Tx = {1, 2, 3}
    Time <- MCTime
    Limit = 1
    IdLimit = 9
    Genesis = 1
    Horizon = 5
    Modes = {"rejected"}
    Fields = {"all"}
    Cursors = {1}
INVARIANT
    PagingNeverFails
CHECK_DEADLOCK FALSE
