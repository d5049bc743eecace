\* Two calls at a time, of any kind, after the one at startup.
SPECIFICATION FairSpec
CONSTANTS
    Caller = {c1, c2}
    Startup = c1
    TTL = 2
    CoolOff = 1
    Timeout = 1
    MaxAge = 6
    None = None
PROPERTIES
    FreshUnlessTrouble
    PauseHolds
    LastGoodIsKept
    CallsSettle
