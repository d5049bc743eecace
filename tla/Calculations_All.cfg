\* Every question of MCCalculations; TLC stops at the answers.
SPECIFICATION Spec
CONSTANTS
    BPS = 2
    YearOne <- MCYearOne
    Months = 366
    SecondsPerMonth = 3
    Crescendo = 20
    Deflationary = 5
    C = 60
    SearchLimit = 2
    Byte = 4
    MaxTarget = 8191
    CrescendoBs = 21
    Hour = 2
    Day = 6
    Soon = 1
    GenesisDay = 6
    GenesisMonth = 0
    Ask <- MCAsk
CHECK_DEADLOCK FALSE
INVARIANTS
    HalvingTold
    MassesAgree
    HistoryIsHonest
    CachesAreSafe
    PagesAddUp
    ReadsAreTrue
