SPECIFICATION Spec
CONSTANTS
    Task = {t1}
    User <- MCUser
    Company <- MCCompany
    Detail <- MCDetail
    CompanyOf <- MCCompanyOf
    RoleOf <- MCRoleOf
    NoUser = NoUser
    NoRow = NoRow
    NoRequest = NoRequest
    Free = Free
    Worker = {w1, w2}
    MaxRequests = 3
    Requests <- AllTraffic
    InitialRows <- AllInitialRows
INVARIANT TypeOK
INVARIANT EventsDescribeCommits
PROPERTY OnlyStaleSavesBreakRules
PROPERTY OnlyEntitledWrites
PROPERTY ImplementsHistory
\* The number of requests is bounded, so a behaviour may end.
CHECK_DEADLOCK FALSE
