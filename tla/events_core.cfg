SPECIFICATION StartSpec
CONSTANTS
    p1 = p1
    p2 = p2
    p3 = p3
    good = good
    bad = bad
    Pod = {p1, p2, p3}
    Event = {good, bad}
    None = None
    MaxFaults = 1
    Key <- MCKey
    Deployments <- MCDeployments
    KeyOf <- MCKeyOf
    Malformed <- MCMalformed
INVARIANT TypeOK
INVARIANT DeadLettersHaveAHome
INVARIANT DeadLettersAreShared
PROPERTY ImplementsDelivery
PROPERTY EveryPodStarts
\* All pods are up, all events handled.
CHECK_DEADLOCK FALSE
