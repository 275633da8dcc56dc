CONSTANTS
    Generators = {}
    Carriers = {}
    Manifests = {tm1}
    Checks = {}
    Calls = {k1, k2}
    Seed <- EmptyList
    MaxVersion <- VersionBound
SPECIFICATION Spec
INVARIANTS TypeOK SnapshotsWereRows
PROPERTIES MovesAreAsConfirmed LoadingEnds
