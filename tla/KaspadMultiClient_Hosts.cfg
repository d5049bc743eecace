\* Two hosts, one request, the loop and startup: failover, its contract and progress.
SPECIFICATION FairSpec
CONSTANTS
    N = 2
    Request = {r1}
    Info <- SyncedOnly
    Loop = Loop
    Startup = Startup
INVARIANTS
    RetryOnFreshStatus
    UnavailableOnlyIfAllBad
    ServedOnlyAfterPings
PROPERTIES
    ImplementsContract
    ImplementsFairContract
    HealthyHostRejoins
    DeadHostLeaves
