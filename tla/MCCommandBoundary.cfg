CONSTANTS
    chief = chief
    clerk = clerk
    work = work
    rework = rework
    revoke = revoke
    k1 = k1
    k2 = k2
    r1 = r1
    r2 = r2
    r3 = r3
    Attempts = {r1, r2, r3}
    Actors = {chief, clerk}
    Keys = {k1, k2}
    Payloads = {work, rework, revoke}
    RightOf <- MCRightOf
    Grants <- MCGrants
    Revokes <- MCRevokes
    Officials = {chief}
    RateLimit = 1
    RateWindow = 2
    MaxTime = 2
    NoAttempt = NoAttempt
SPECIFICATION MCSpec
INVARIANT TypeOK
INVARIANT NoRevokedStaffCommits
INVARIANT RateBounded
PROPERTY ImplementsExactlyOnce
PROPERTY NobodyStarves
