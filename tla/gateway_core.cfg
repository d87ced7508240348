SPECIFICATION FairSpec
CONSTANTS
    r1 = r1
    r2 = r2
    c1 = c1
    l1 = l1
    e1 = e1
    e2 = e2
    s1 = s1
    s2 = s2
    Registration = {r1, r2}
    Login = {l1}
    Call = {c1}
    Email = {e1, e2}
    Secret = {s1, s2}
    None = None
    Limit = 2
    Forms <- MCForms
    Attempts <- MCAttempts
    Id <- MCId
    RoleOf <- MCRoleOf
    RouteOf <- MCRouteOf
INVARIANT TypeOK
INVARIANT AdmittedWithinLimit
INVARIANT OnlyRacesShutOut
INVARIANT IdentityIsGenuine
PROPERTY BlockedClientsRecover
\* Each request is sent once.
CHECK_DEADLOCK FALSE
