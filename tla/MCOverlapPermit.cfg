CONSTANTS
    Generators = {g1}
    Carriers = {}
    Manifests = {}
    Checks = {}
    Requests = {q1, q2}
    MaxTime = 1
    Foresight = 0
    SeedTable <- SeedNothing
    MaxVersion <- WriteAll
SPECIFICATION AuditSpec
SYMMETRY AnyRequest
INVARIANTS
    VersionCountsTheTrail
    HistoryListsTheLastEntries SummaryPartsOnlyGrow
PROPERTIES FeedsThePage
