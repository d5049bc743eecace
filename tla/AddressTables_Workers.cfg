\* Two requests in one worker with one connection, tables that come and go.
SPECIFICATION FairSpec
CONSTANTS
    BPS = 1
    a = a
    b = b
    r1 = r1
    r2 = r2
    Address = {a, b}
    Worker = {w}
    Request = {r1, r2}
    At <- MCAt
    Asks <- MCAsks
    Pool = 1
    UtxoLimit = 0
    MaxCount = 1
    MaxChanges = 1
INVARIANTS
    TypeOK
    LimitHolds
    AnswersWereTrue
    FailsOnlyIfDropped
PROPERTIES
    StatementsEnd
