CONSTANTS
    u1 = u1
    u2 = u2
    Tabs = {t1, t2}
    Calls = {k1}
    Users = {u1, u2}
    Role <- RoleOf
    TokenTTL = 1
    MaxTime = 2
SPECIFICATION Spec
INVARIANTS TypeOK SessionMatchesItsToken
PROPERTIES RefusedOnlyWithAnothersToken SignedOutStaysSignedOut LoadingEnds
