CONSTANTS
    Servers = {s1, s2}
    Tables <- DemoTables
    Seeds <- DemoSeeds
    Codes <- DemoCodes
    Deletable <- DemoDeletable
    MaxAttempts = 2
    MaxStops = 2
    MaxOutages = 1
SPECIFICATION FairSpec
INVARIANTS TypeOK SeedsAllOrNone ServingIsSeeded
PROPERTIES ImplementsSeededTables EveryServerServes
\* A server that serves has nothing left to do when no user asks for anything.
CHECK_DEADLOCK FALSE
