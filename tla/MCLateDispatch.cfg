CONSTANTS
    Generators = {g1}
    Carriers = {c1}
    Manifests = {m1}
    Checks = {}
    Requests = {q1, q2}
    MaxTime = 0
    Foresight = 0
    SeedTable <- SeedDraft
    MaxVersion <- WriteAll
SPECIFICATION Spec
PROPERTY PartiesValidAtDispatch
