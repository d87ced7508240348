SPECIFICATION FairSpec
CONSTANTS
    Task = {t1}
    User <- MCUser
    Company <- MCCompany
    Detail <- MCDetail
    CompanyOf <- MCCompanyOf
    RoleOf <- MCRoleOf
    NoUser = NoUser
    NoRow = NoRow
    NoRequest = NoRequest
    Free = Free
    Worker = {w1, w2, w3}
    MaxRequests = 3
    Requests <- LockTraffic
    InitialRows <- LockInitialRows
INVARIANT AssignersExclusive
INVARIANT LockedSnapshotFresh
PROPERTY LockFreed
\* The number of requests is bounded, so a behaviour may end.
CHECK_DEADLOCK FALSE
