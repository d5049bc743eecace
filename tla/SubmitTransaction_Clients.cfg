\* One node, two clients that submit a transaction the network may know.
SPECIFICATION SubmitSpec
CONSTANTS
    N = 1
    Request = {r1, r2}
    Info <- SyncInfo
    Loop = Loop
    Startup = Startup
    Valid = TRUE
SYMMETRY RequestSymmetry
INVARIANTS
    SubmitTypeOK
    StatusIsTruthful
