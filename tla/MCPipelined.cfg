CONSTANTS
    Generators = {g1}
    Carriers = {c1}
    Manifests = {m1}
    Checks = {}
    Requests = {q1, q2}
    MaxTime = 0
    Foresight = 1
    SeedTable <- SeedDraft
    MaxVersion <- WriteManifests
SPECIFICATION Spec
PROPERTY StatusMovesAlongGraph
