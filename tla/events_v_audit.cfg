SPECIFICATION FairSpec
CONSTANTS
    p1 = p1
    p2 = p2
    p3 = p3
    good = good
    bad = bad
    Pod = {p1, p2, p3}
    Event = {good, bad}
    None = None
    MaxFaults = 0
    Key <- MCKey
    Deployments <- MCDeployments
    KeyOf <- MCKeyOf
    Malformed <- MCMalformed
PROPERTY EveryEventAudited
CHECK_DEADLOCK FALSE
