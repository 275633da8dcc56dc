CONSTANTS
    Generators = {g1}
    Carriers = {c1}
    Manifests = {m1}
    Checks = {}
    Requests = {q1, q2}
    MaxTime = 1
    Foresight = 0
    SeedTable <- SeedDraft
    MaxVersion <- WriteDispatch
SPECIFICATION OvertakingSpec
SYMMETRY AnyRequest
INVARIANTS TypeOK ReadIsFresh AuditTrailReplays DispatchHoldsUnlessOvertaken
PROPERTIES StatusMovesAlongGraph ImplementsOverlappingPromise
