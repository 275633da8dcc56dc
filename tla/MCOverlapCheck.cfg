CONSTANTS
    Generators = {g1}
    Carriers = {c1}
    Manifests = {m1, m2}
    Checks = {k1}
    Requests = {q1, q2}
    MaxTime = 0
    Foresight = 0
    SeedTable <- SeedInTransit
    MaxVersion <- WriteDecisions
SPECIFICATION OvertakingSpec
SYMMETRY AnyRequest
INVARIANTS
    AnswerShowsTheWrite LinksWereRecords
    RemovalsHoldUnlessOvertaken PassHoldsUnlessOvertaken PassedChecksWereSubmitted
PROPERTIES DecidedDataIsFixed OrphansAreStuckUnlessOvertaken
