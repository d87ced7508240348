SPECIFICATION ListingSpec
CONSTANTS
    p1 = p1
    p2 = p2
    p3 = p3
    Project = {p1, p2, p3}
    Company <- MCCompany
    Phase <- MCPhase
    Worker = {w1, w2, w3}
    Requests <- MCRequests
    InitialProjects <- MCInitialProjects
    MaxRequests = 4
    NoProject = NoProject
    NoRequest = NoRequest
    Created <- MCCreated
    Caller = "c1"
    Wanted = {"active"}
    Sizes = {0, 1, 4}
    DefaultSize = 2
    LargestSize = 3
    Walked <- MCWalked
SYMMETRY WorkerSymmetry
INVARIANT TypeOK
INVARIANT ProjectTasksInTenant
INVARIANT WalkSeesAll
PROPERTY DeletedProjectsRefuse
\* The number of requests is bounded, so a behaviour may end.
CHECK_DEADLOCK FALSE
