CONSTANTS
    Generators = {g1}
    Carriers = {c1}
    Manifests = {m1}
    Checks = {k1}
    Requests = {q1, q2}
    MaxTime = 0
    Foresight = 0
    SeedTable <- SeedSubmitted
    MaxVersion <- WriteAll
SPECIFICATION Spec
PROPERTY OnlyActiveManifestPasses
