CONSTANTS
    Generators = {}
    Carriers = {cp1}
    Manifests = {}
    Checks = {cc1}
    Calls = {k1}
    Seed <- EmptyList
    MaxVersion <- VersionBound
SPECIFICATION Spec
INVARIANT OnlyChangedIsRefused
