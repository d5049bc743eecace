\* Three workers, over either client, and a monitor that asks again and again.
SPECIFICATION FairSpec
CONSTANTS
    Host = {h1, h2, h3, h4}
    Setups = {{h1}, {h2}, {h3, h4}}
    First <- SetupFirst
    Reports <- HostReports
    Data = {"down", "current", "blocks_late", "txs_late"}
    None = None
    h1 = h1
    h2 = h2
    h3 = h3
    h4 = h4
INVARIANTS
    TypeOK
PROPERTIES
    HealthyWas
    HealthIsSeen
    OutageIsSeen
